---- MODULE Spec2Model ----
(***************************************************************************)
(* Session-gated navigation and the product create/edit/list loop of the   *)
(* hollypacas frontend: the Login view (src/frontend_legacy/src/router/    *)
(* index.js, second half), the Home view (views/Home.vue) and the          *)
(* Inventory view (views/Inventory.vue).                                   *)
(*                                                                         *)
(* The browser runs one event at a time.  An async handler runs up to its  *)
(* next await as one step; what is left of it waits in `pending` as a      *)
(* record that holds the request and the locals the handler captured.      *)
(* JavaScript null/undefined is the string Null for string-valued slots;   *)
(* a property that an object does not have is a field the record lacks.    *)
(***************************************************************************)
EXTENDS Integers, Sequences, FiniteSets, Bags, TLC

\* ------------------------------------------------------------------ bounds
\* A navigation or a login is started only while fewer than this many requests
\* (suspended handlers) are waiting.
MaxInFlight == 2
\* A save, deactivate or catalog event of the Inventory view issues its request
\* only while fewer than this many are waiting; so does the include-inactive
\* checkbox in SpecInv (in SpecRace it is bounded by MaxInFlight, as the save
\* button is in SpecDup).
MaxInvInFlight == 1
\* At most this many product records in the backend.
MaxProducts == 1

\* ------------------------------------------------------------------ values
Null == "null"
Tokens == {"t1", "t2"}
Routes == {"/", "/login", "/home", "/inventory"}
Views == {"boot", "login", "home", "inventory"}

\* JavaScript truthiness of a string-valued slot (x || d, !x).
Truthy(x) == x # Null /\ x # ""

\* Texts the Login view shows.
InvalidCredentials == "Credenciales incorrectas"
\* a catch block that reuses the invalid-credentials text
ConnectionErrorSameText == "Credenciales incorrectas"
ConnectionError == "Error de conexion"

\* Profiles the who-am-I endpoint may answer with (data of /auth/me).
Profiles ==
  { [full_name |-> "Ana", roles |-> <<[name |-> "administrador"]>>,
     branches |-> <<[code |-> "central", name |-> "Central"],
                    [id |-> "2", code |-> "esteli", name |-> "Esteli"]>>],
    [email |-> "ana@hp", roles |-> <<[name |-> "administrador"]>>],
    [full_name |-> "Luz", roles |-> <<[name |-> "seguridad"]>>,
     branches |-> <<[code |-> "esteli", name |-> "Esteli"]>>],
    [full_name |-> "Leo", roles |-> <<[name |-> "vendedor"], [name |-> "administrador"]>>,
     branches |-> << >>],
    [full_name |-> "Eva", roles |-> << >>],
    [full_name |-> "Noa"] }

VARIABLES
  token,          \* localStorage slot "token"
  view,           \* the route component the router shows ("boot": not resolved yet)
  pending,        \* bag of suspended handlers, each waiting for its request's answer
  srvProducts,    \* backend: the product collection
  \* Login view
  email, password, remember, error,
  \* Home view
  displayName, role, branches, activeBranch, accessError,
  \* Inventory view
  products, lineas, segmentos, includeInactive, isEditing, editingId, search,
  lineaForm, segmentoForm, form,
  \* history: the last step taken (its kind, argument, outcome, requests issued)
  last,
  \* history: the identifier of the record passed to the latest editProduct
  edited

loginVars == <<email, password, remember, error>>
homeVars == <<displayName, role, branches, activeBranch, accessError>>
invVars == <<products, lineas, segmentos, includeInactive, isEditing, editingId,
             search, lineaForm, segmentoForm, form>>
vars == <<token, view, pending, srvProducts, loginVars, homeVars, invVars, last, edited>>

\* ------------------------------------------------------------------ data()
\* Login.vue data()
LoginData == [email |-> "", password |-> "", remember |-> TRUE, error |-> Null]
\* Home.vue data()
HomeData ==
  [displayName |-> "Usuario", role |-> Null, branches |-> << >>,
   activeBranch |-> [code |-> "", name |-> ""], accessError |-> Null]
\* Inventory.vue data(): the product form
EmptyForm ==
  [cod_producto |-> "", descripcion |-> "", linea_id |-> "", segmento_id |-> "",
   marca |-> "", referencia_producto |-> "", precio_venta1 |-> 0, precio_venta2 |-> 0,
   precio_venta3 |-> 0, costo_producto |-> 0, existencia |-> 0, activo |-> TRUE]
EmptyLineaForm == [cod_linea |-> "", linea |-> "", activo |-> TRUE]
EmptySegmentoForm == [segmento |-> ""]
\* Inventory.vue data()
InventoryData ==
  [products |-> << >>, lineas |-> << >>, segmentos |-> << >>, includeInactive |-> FALSE,
   isEditing |-> FALSE, editingId |-> Null, search |-> "",
   lineaForm |-> EmptyLineaForm, segmentoForm |-> EmptySegmentoForm, form |-> EmptyForm]

\* ------------------------------------------------------------------ requests
\* a login() that sends the remember-session field along
LoginReqRemembers(e, p) ==
  [op |-> "login", live |-> TRUE, method |-> "POST", url |-> "/auth/login",
   body |-> [email |-> e, password |-> p, remember |-> remember]]

\* fetch(".../auth/login", POST, body {email, password})
LoginReq(e, p) ==
  [op |-> "login", live |-> TRUE, method |-> "POST", url |-> "/auth/login",
   body |-> [email |-> e, password |-> p]]
\* fetch(".../auth/me", Authorization: Bearer token)
MeReq(tok) ==
  [op |-> "me", live |-> TRUE, method |-> "GET", url |-> "/auth/me", bearer |-> tok]
\* fetch(".../inventory/catalogs"); `then` is the caller that awaits fetchCatalogs
CatalogsReq(tok, caller) ==
  [op |-> "catalogs", live |-> TRUE, flag |-> FALSE, method |-> "GET",
   url |-> "/inventory/catalogs", bearer |-> tok, then |-> caller]

\* The requests of a sequence, as a bag.
RECURSIVE SeqToBag(_)
SeqToBag(s) == IF s = << >> THEN EmptyBag ELSE SetToBag({Head(s)}) (+) SeqToBag(Tail(s))

\* A component instance that is unmounted stays referenced by its suspended
\* handlers: they go on, but what they write to `this` is no longer shown.
\* A handler of the Inventory view reads this.includeInactive when it goes on:
\* `flag` keeps the value the unmounted instance holds.
Dead(r) ==
  IF ~r.live THEN r
  ELSE IF "flag" \in DOMAIN r
       THEN [r EXCEPT !.live = FALSE, !.flag = includeInactive]
       ELSE [r EXCEPT !.live = FALSE]

RECURSIVE Copies(_, _)
Copies(S, pend) ==
  IF S = {} THEN 0
  ELSE LET r == CHOOSE x \in S : TRUE IN CopiesIn(r, pend) + Copies(S \ {r}, pend)

Kill(pend) ==
  LET S == BagToSet(pend)
  IN [t \in {Dead(r) : r \in S} |-> Copies({r \in S : Dead(r) = t}, pend)]

Take(pend, r) == pend (-) SetToBag({r})
InFlight(pend) == BagCardinality(pend)

\* ------------------------------------------------------------------ router
\* routes of router/index.js: the component a path shows ("/" redirects to /login)
RouteView(to) ==
  CASE to = "/" -> "login"
    [] to = "/login" -> "login"
    [] to = "/home" -> "home"
    [] to = "/inventory" -> "inventory"

\* Home.mounted, first lines: without a token the view pushes /login at once.
HomeGuardPasses(tok) == Truthy(tok)

\* a mounted() that starts both fetches without awaiting the first
InventoryMountBoth(tok) ==
  <<CatalogsReq(tok, "mounted"),
    [op |-> "products", live |-> TRUE, flag |-> FALSE, method |-> "GET",
     url |-> "/inventory/products?include_inactive=false", bearer |-> tok,
     then |-> "mounted", after |-> "", resp |-> "none", data |-> << >>]>>

\* Inventory.mounted: what happens before fetchCatalogs is called.
InventoryMountRequests(tok) == <<CatalogsReq(tok, "mounted")>>

\* The view shown once the navigation to `to` and the mounted hook it starts
\* have run up to their first await, for token slot content tok.
Resolve(to, tok) ==
  IF RouteView(to) = "home" /\ ~HomeGuardPasses(tok) THEN "login" ELSE RouteView(to)

\* a Home.mounted that asks who-am-I twice
MountRequestsTwice(v, tok) ==
  CASE v = "home" -> <<MeReq(tok), MeReq(tok)>>
    [] v = "inventory" -> InventoryMountRequests(tok)
    [] OTHER -> << >>

\* The requests the mounted hook of view v issues before its first await.
MountRequests(v, tok) ==
  CASE v = "home" -> <<MeReq(tok)>>
    [] v = "inventory" -> InventoryMountRequests(tok)
    [] OTHER -> << >>

\* router.push(to): a push to the route already shown changes nothing.
NavSent(to, tok) ==
  IF RouteView(to) = view THEN << >> ELSE MountRequests(Resolve(to, tok), tok)

SetLogin(d) ==
  /\ email' = d.email /\ password' = d.password
  /\ remember' = d.remember /\ error' = d.error
SetHome(d) ==
  /\ displayName' = d.displayName /\ role' = d.role /\ branches' = d.branches
  /\ activeBranch' = d.activeBranch /\ accessError' = d.accessError
SetInventory(d) ==
  /\ products' = d.products /\ lineas' = d.lineas /\ segmentos' = d.segmentos
  /\ includeInactive' = d.includeInactive /\ isEditing' = d.isEditing
  /\ editingId' = d.editingId /\ search' = d.search /\ lineaForm' = d.lineaForm
  /\ segmentoForm' = d.segmentoForm /\ form' = d.form

\* router.push(to) with the token slot holding tok and `pend` the handlers
\* still suspended: the old component is unmounted, the new one is created
\* from its data() and its mounted hook runs to its first await.
Navigate(to, tok, pend) ==
  IF RouteView(to) = view
  THEN /\ view' = view
       /\ pending' = pend
       /\ UNCHANGED <<loginVars, homeVars, invVars>>
  ELSE /\ view' = Resolve(to, tok)
       /\ pending' = Kill(pend) (+) SeqToBag(NavSent(to, tok))
       /\ SetLogin(LoginData)
       /\ SetHome(HomeData)
       /\ SetInventory(InventoryData)

\* Room for the requests a step issues (the bounds of the model).
Room(pend, sent) == InFlight(pend) + Len(sent) <= MaxInFlight
RoomInv(pend, sent) == InFlight(pend) + Len(sent) <= MaxInvInFlight

Step(act, arg, out, sent) == [act |-> act, arg |-> arg, out |-> out, sent |-> sent]

\* The history a step leaves.
Did(act, arg, out, sent) ==
  /\ last' = Step(act, arg, out, sent)
  /\ edited' = IF act = "editProduct" THEN arg ELSE edited

\* ------------------------------------------------------------------ page load
\* a start-up that drops the stored session
PageLoadExpires(to) ==
  /\ view = "boot"
  /\ Room(pending, NavSent(to, Null))
  /\ token' = Null
  /\ Navigate(to, Null, pending)
  /\ Did("PageLoad", to, "", NavSent(to, Null))
  /\ UNCHANGED srvProducts

\* The browser opens the application at a path: createApp(App).use(router).
PageLoad(to) ==
  /\ view = "boot"
  /\ Room(pending, NavSent(to, token))
  /\ Navigate(to, token, pending)
  /\ Did("PageLoad", to, "", NavSent(to, token))
  /\ UNCHANGED <<token, srvProducts>>

\* ------------------------------------------------------------------ Login view
Emails == {"ana@hp"}
Passwords == {"pw"}

\* v-model="email", v-model="password", v-model="remember"
InputLogin(e, p, r) ==
  /\ view = "login"
  /\ <<e, p, r>> # <<email, password, remember>>
  /\ email' = e /\ password' = p /\ remember' = r
  /\ Did("InputLogin", "", "", << >>)
  /\ UNCHANGED <<token, view, pending, srvProducts, error, homeVars, invVars>>

\* login(), up to `await fetch`
login ==
  /\ view = "login"
  /\ Room(pending, <<LoginReq(email, password)>>)
  /\ pending' = pending (+) SetToBag({LoginReq(email, password)})
  /\ Did("login", "", "", <<LoginReq(email, password)>>)
  /\ UNCHANGED <<token, view, srvProducts, loginVars, homeVars, invVars>>

\* a login() that does not assign this.error
LoginErrorUnset(r, e) == error

\* What the Login view's error becomes when a handler of request r assigns e.
LoginError(r, e) == IF r.live THEN e ELSE error

\* login(), `if (!res.ok)`
LoginRejected(r) ==
  /\ r.op = "login"
  /\ error' = LoginError(r, InvalidCredentials)
  /\ pending' = Take(pending, r)
  /\ Did("LoginResponse", [live |-> r.live, access_token |-> Null], "fail", << >>)
  /\ UNCHANGED <<token, view, srvProducts, email, password, remember, homeVars, invVars>>

\* a catch block that sends the request again
LoginNetErrorRetries(r) ==
  /\ r.op = "login"
  /\ error' = LoginError(r, ConnectionError)
  /\ pending' = Take(pending, r) (+) SetToBag({r})
  /\ Did("LoginResponse", [live |-> r.live, access_token |-> Null], "neterr", <<r>>)
  /\ UNCHANGED <<token, view, srvProducts, email, password, remember, homeVars, invVars>>

\* login(), `catch (err)`: fetch rejected
LoginNetError(r) ==
  /\ r.op = "login"
  /\ error' = LoginError(r, ConnectionError)
  /\ pending' = Take(pending, r)
  /\ Did("LoginResponse", [live |-> r.live, access_token |-> Null], "neterr", << >>)
  /\ UNCHANGED <<token, view, srvProducts, email, password, remember, homeVars, invVars>>

\* a login() that pushes before it stores the token
PushThenSetItem(old, new) == old

\* login(): setItem comes before push, so the view that push mounts finds the
\* new token in the slot (old: the slot before, new: data.access_token)
SetItemThenPush(old, new) == new

\* login(), success: setItem("token", data.access_token); push("/home")
LoginAccepted(r, access_token) ==
  /\ r.op = "login"
  /\ token' = access_token
  /\ Navigate("/home", SetItemThenPush(token, access_token), Take(pending, r))
  /\ Did("LoginResponse", [live |-> r.live, access_token |-> access_token], "ok",
         NavSent("/home", SetItemThenPush(token, access_token)))
  /\ UNCHANGED srvProducts

\* ------------------------------------------------------------------ Home view
\* mounted: this.displayName = data.full_name || data.email
DisplayNameOf(data) ==
  IF "full_name" \in DOMAIN data /\ Truthy(data.full_name) THEN data.full_name ELSE data.email

\* a guard that looks for the role anywhere in the list
RoleOfAny(data) ==
  IF "roles" \in DOMAIN data /\ \E i \in 1..Len(data.roles) : data.roles[i].name = "administrador"
  THEN "administrador"
  ELSE IF "roles" \in DOMAIN data /\ Len(data.roles) > 0 THEN data.roles[1].name
  ELSE "usuario"

\* mounted: roleNames = (data.roles || []).map(role => role.name);
\*          this.role = roleNames[0] || "usuario"
RoleOf(data) ==
  LET roleNames == IF "roles" \in DOMAIN data
                   THEN [i \in 1..Len(data.roles) |-> data.roles[i].name]
                   ELSE << >>
  IN IF Len(roleNames) > 0 /\ Truthy(roleNames[1]) THEN roleNames[1] ELSE "usuario"

\* a mounted whose fallback is the branch data() starts with
BranchesOfNoDefault(data) ==
  IF "branches" \in DOMAIN data /\ Len(data.branches) > 0
  THEN [i \in 1..Len(data.branches) |->
          [code |-> data.branches[i].code, name |-> data.branches[i].name]]
  ELSE <<HomeData.activeBranch>>

\* mounted: this.branches = data.branches && data.branches.length ? ... : [central]
BranchesOf(data) ==
  IF "branches" \in DOMAIN data /\ Len(data.branches) > 0
  THEN [i \in 1..Len(data.branches) |->
          [code |-> data.branches[i].code, name |-> data.branches[i].name]]
  ELSE <<[code |-> "central", name |-> "Central"]>>

\* a guard that lets in the roles canChooseBranch names
RoleAllowedAsBranchChooser(r) == r \in {"administrador", "seguridad"}

\* mounted: `if (this.role !== "administrador")` decides who is logged out
RoleAllowed(r) == r = "administrador"

\* computed canChooseBranch
canChooseBranch == role \in {"administrador", "seguridad"}

\* computed roleLabel
roleLabel == IF role = "administrador" THEN "Administrador" ELSE "Usuario"

\* a logout that forgets removeItem
RemoveItemSkipped(tok) == tok

\* logout(): localStorage.removeItem("token")
RemoveItem(tok) == Null

\* a logout that empties the slot and stays on the view shown
HomeLogoutStays(pend) ==
  /\ token' = RemoveItem(token)
  /\ view' = view
  /\ pending' = pend
  /\ UNCHANGED <<loginVars, homeVars, invVars>>

\* logout() of Home.vue, called with `pend` the handlers still suspended
HomeLogout(pend) ==
  /\ token' = RemoveItem(token)
  /\ Navigate("/login", RemoveItem(token), pend)

\* the "Salir" button of Home
logout ==
  /\ view = "home"
  /\ HomeLogout(pending)
  /\ Did("logout", "", "", << >>)
  /\ UNCHANGED srvProducts

\* mounted, after `await fetch(/auth/me)`: `if (!res.ok) throw`, or fetch
\* rejected; both end in the catch block
MeFailed(r, out) ==
  /\ r.op = "me"
  /\ HomeLogout(Take(pending, r))
  /\ Did("MeResponse", [live |-> r.live, bearer |-> r.bearer], out, << >>)
  /\ UNCHANGED srvProducts

\* mounted, after a success response whose body is data
MeAccepted(r, data) ==
  /\ r.op = "me"
  /\ IF RoleAllowed(RoleOf(data))
     THEN /\ IF r.live
             THEN SetHome([displayName |-> DisplayNameOf(data),
                           role |-> RoleOf(data),
                           branches |-> BranchesOf(data),
                           activeBranch |-> BranchesOf(data)[1],
                           accessError |-> accessError])
             ELSE UNCHANGED homeVars
          /\ pending' = Take(pending, r)
          /\ UNCHANGED <<token, view, loginVars, invVars>>
     ELSE HomeLogout(Take(pending, r))
  /\ Did("MeResponse", [live |-> r.live, bearer |-> r.bearer, data |-> data], RoleOf(data), << >>)
  /\ UNCHANGED srvProducts

\* setBranch(branch), from the branch buttons (v-if="canChooseBranch")
setBranch(branch) ==
  /\ view = "home"
  /\ canChooseBranch
  /\ activeBranch # branch
  /\ activeBranch' = branch
  /\ Did("setBranch", "", "", << >>)
  /\ UNCHANGED <<token, view, pending, srvProducts, loginVars, invVars,
                 displayName, role, branches, accessError>>

\* a menu item of Home with a route: <router-link to="/inventory">
GoInventory ==
  /\ view = "home"
  /\ Room(pending, NavSent("/inventory", token))
  /\ Navigate("/inventory", token, pending)
  /\ Did("GoInventory", "", "", NavSent("/inventory", token))
  /\ UNCHANGED <<token, srvProducts>>

\* createWebHistory(): the browser's back / forward buttons move to a path of
\* the history, and the router shows its component as a push does.
Visit(to) ==
  /\ view # "boot"
  /\ Room(pending, NavSent(to, token))
  /\ Navigate(to, token, pending)
  /\ Did("Visit", to, "", NavSent(to, token))
  /\ UNCHANGED <<token, srvProducts>>

\* ------------------------------------------------------------------ Inventory: requests
\* fetchProducts: GET /inventory/products?include_inactive=<flag>; `then` is
\* the caller that awaits it and `after` the status of the answer that caller
\* got to its own request before ("" when it made none); resp/data are the
\* answer once the backend has handled the request
ProductsReq(tok, inactive, caller, after) ==
  [op |-> "products", live |-> TRUE, flag |-> FALSE, method |-> "GET",
   url |-> "/inventory/products?include_inactive=" \o (IF inactive THEN "true" ELSE "false"),
   bearer |-> tok, then |-> caller, after |-> after, resp |-> "none", data |-> << >>]

\* a saveProduct that sends the line and segment fields as the form holds them
PayloadAsTyped(f, editing) ==
  IF editing THEN [k \in DOMAIN f \ {"cod_producto"} |-> f[k]] ELSE f

\* a saveProduct without `delete payload.cod_producto`
PayloadWithCode(f, editing) ==
  [f EXCEPT !.linea_id = IF Truthy(f.linea_id) THEN f.linea_id ELSE Null,
            !.segmento_id = IF Truthy(f.segmento_id) THEN f.segmento_id ELSE Null]

\* saveProduct: `payload = { ...this.form }`, linea_id/segmento_id || null,
\* `delete payload.cod_producto` when editing
Payload(f, editing) ==
  LET p == [f EXCEPT !.linea_id = IF Truthy(f.linea_id) THEN f.linea_id ELSE Null,
                     !.segmento_id = IF Truthy(f.segmento_id) THEN f.segmento_id ELSE Null]
  IN IF editing THEN [k \in DOMAIN p \ {"cod_producto"} |-> p[k]] ELSE p

\* saveProduct: method and url
SaveMethod(editing) == IF editing THEN "PUT" ELSE "POST"
SaveUrl(editing, id) ==
  IF editing THEN "/inventory/products/" \o id ELSE "/inventory/products"

SaveReq(tok, editing, id, f) ==
  [op |-> "save", live |-> TRUE, flag |-> FALSE, method |-> SaveMethod(editing),
   url |-> SaveUrl(editing, id), bearer |-> tok, body |-> Payload(f, editing),
   resp |-> "none"]

\* a deactivateProduct that sends no credential
DeactivateReqNoToken(tok, id) ==
  [op |-> "deactivate", live |-> TRUE, flag |-> FALSE, method |-> "PATCH",
   url |-> "/inventory/products/" \o id \o "/deactivate", bearer |-> Null,
   resp |-> "none"]

\* deactivateProduct: PATCH /inventory/products/<id>/deactivate
DeactivateReq(tok, id) ==
  [op |-> "deactivate", live |-> TRUE, flag |-> FALSE, method |-> "PATCH",
   url |-> "/inventory/products/" \o id \o "/deactivate", bearer |-> tok,
   resp |-> "none"]

\* saveLinea: POST /inventory/lineas, body this.lineaForm
LineaReq(tok, body) ==
  [op |-> "linea", live |-> TRUE, flag |-> FALSE, method |-> "POST",
   url |-> "/inventory/lineas", bearer |-> tok, body |-> body]

\* saveSegmento: POST /inventory/segmentos, body this.segmentoForm
SegmentoReq(tok, body) ==
  [op |-> "segmento", live |-> TRUE, flag |-> FALSE, method |-> "POST",
   url |-> "/inventory/segmentos", bearer |-> tok, body |-> body]

\* ------------------------------------------------------------------ backend
\* The product the backend holds for a create payload b, under identifier id.
NewProduct(id, b) ==
  LET base == [id |-> id, cod_producto |-> b.cod_producto, descripcion |-> b.descripcion,
               marca |-> b.marca, referencia_producto |-> b.referencia_producto,
               precio_venta1 |-> b.precio_venta1, precio_venta2 |-> b.precio_venta2,
               precio_venta3 |-> b.precio_venta3, costo_producto |-> b.costo_producto,
               saldo |-> [existencia |-> b.existencia], activo |-> b.activo]
      lin == IF b.linea_id # Null
             THEN [linea |-> [id |-> b.linea_id, linea |-> b.linea_id]] ELSE << >>
      seg == IF b.segmento_id # Null
             THEN [segmento |-> [id |-> b.segmento_id, segmento |-> b.segmento_id]]
             ELSE << >>
  IN base @@ lin @@ seg

\* The product after an update with payload b: the fields b has replace the
\* stored ones, the identifier stays.
UpdatedProduct(old, b) ==
  NewProduct(old.id, b @@ [cod_producto |-> old.cod_producto])

\* Position of the product with identifier id in list l, 0 when there is none.
IndexOf(l, id) ==
  IF \E i \in 1..Len(l) : l[i].id = id THEN CHOOSE i \in 1..Len(l) : l[i].id = id ELSE 0

\* The identifier a request's url names ("" for the collection).
UrlId(r) ==
  IF \E i \in 1..Len(srvProducts) :
        r.url \in {"/inventory/products/" \o srvProducts[i].id,
                   "/inventory/products/" \o srvProducts[i].id \o "/deactivate"}
  THEN srvProducts[CHOOSE i \in 1..Len(srvProducts) :
        r.url \in {"/inventory/products/" \o srvProducts[i].id,
                   "/inventory/products/" \o srvProducts[i].id \o "/deactivate"}].id
  ELSE ""

\* Whether the backend can accept request r in its present state.
Acceptable(r) ==
  CASE r.op = "products" -> TRUE
    [] r.op = "save" /\ r.method = "POST" ->
         /\ Len(srvProducts) < MaxProducts
         /\ "cod_producto" \in DOMAIN r.body /\ Truthy(r.body.cod_producto)
    [] r.op = "save" /\ r.method = "PUT" -> UrlId(r) # ""
    [] r.op = "deactivate" -> UrlId(r) # ""
    [] OTHER -> FALSE

\* The collection after the backend has accepted request r.
Applied(r) ==
  CASE r.op = "save" /\ r.method = "POST" ->
         Append(srvProducts, NewProduct(ToString(Len(srvProducts) + 1), r.body))
    [] r.op = "save" /\ r.method = "PUT" ->
         [srvProducts EXCEPT ![IndexOf(srvProducts, UrlId(r))] = UpdatedProduct(@, r.body)]
    [] r.op = "deactivate" ->
         [srvProducts EXCEPT ![IndexOf(srvProducts, UrlId(r))] = [@ EXCEPT !.activo = FALSE]]
    [] OTHER -> srvProducts

\* The body of a product-list answer.
Listing(inactive) == SelectSeq(srvProducts, LAMBDA p : inactive \/ p.activo)

Answered(r, out) ==
  IF r.op = "products"
  THEN [r EXCEPT !.resp = out,
                 !.data = IF out = "ok"
                          THEN Listing(r.url = "/inventory/products?include_inactive=true")
                          ELSE << >>]
  ELSE [r EXCEPT !.resp = out]

\* The backend handles a product request and answers it with success.
ServeOk(r) ==
  /\ "resp" \in DOMAIN r /\ r.resp = "none"
  /\ Acceptable(r)
  /\ srvProducts' = Applied(r)
  /\ pending' = Take(pending, r) (+) SetToBag({Answered(r, "ok")})
  /\ Did("Serve", "", "ok", << >>)
  /\ UNCHANGED <<token, view, loginVars, homeVars, invVars>>

\* The backend answers a product request with a non-success status.
ServeFail(r) ==
  /\ "resp" \in DOMAIN r /\ r.resp = "none"
  /\ pending' = Take(pending, r) (+) SetToBag({Answered(r, "fail")})
  /\ Did("Serve", "", "fail", << >>)
  /\ UNCHANGED <<token, view, srvProducts, loginVars, homeVars, invVars>>

\* ------------------------------------------------------------------ Inventory: text search
\* The characters of the texts the model uses.
Chars(s) ==
  CASE s = "" -> << >>
    [] s = "A" -> <<"A">>
    [] s = "B" -> <<"B">>
    [] s = "C" -> <<"C">>
    [] s = "b" -> <<"b">>
    [] s = "a" -> <<"a">>
    [] s = "M" -> <<"M">>
    [] s = " " -> <<" ">>
    [] s = "D1" -> <<"D", "1">>
    [] s = "l1" -> <<"l", "1">>
    [] s = "s1" -> <<"s", "1">>
    [] s = " b " -> <<" ", "b", " ">>
    [] s = "d1" -> <<"d", "1">>
    [] s = "d2" -> <<"d", "2">>
    [] s = "m" -> <<"m">>
    [] s = "L1" -> <<"L", "1">>
    [] s = "S1" -> <<"S", "1">>
    [] s = "zz" -> <<"z", "z">>

\* String.prototype.toLowerCase, per character
LowerChar(c) ==
  CASE c = "A" -> "a" [] c = "B" -> "b" [] c = "C" -> "c" [] c = "D" -> "d"
    [] c = "L" -> "l" [] c = "M" -> "m" [] c = "S" -> "s" [] OTHER -> c

\* a filter that compares the texts as they are
KeepCase(cs) == cs

ToLowerCase(cs) == [i \in 1..Len(cs) |-> LowerChar(cs[i])]

\* String.prototype.trim
RECURSIVE Trim(_)
Trim(cs) ==
  IF cs = << >> THEN cs
  ELSE IF Head(cs) = " " THEN Trim(Tail(cs))
  ELSE IF cs[Len(cs)] = " " THEN Trim(SubSeq(cs, 1, Len(cs) - 1))
  ELSE cs

\* Array.prototype.join(" ")
RECURSIVE Join(_)
Join(l) ==
  IF l = << >> THEN << >>
  ELSE IF Len(l) = 1 THEN l[1]
  ELSE l[1] \o <<" ">> \o Join(Tail(l))

\* String.prototype.includes
Includes(hay, needle) ==
  \E i \in 1..(Len(hay) + 1) :
    /\ i + Len(needle) - 1 <= Len(hay)
    /\ SubSeq(hay, i, i + Len(needle) - 1) = needle

\* filteredProducts: the values of a product the query is matched against
SearchValues(producto) ==
  LET vals == <<producto.cod_producto, producto.descripcion,
                IF "linea" \in DOMAIN producto THEN producto.linea.linea ELSE Null,
                IF "segmento" \in DOMAIN producto THEN producto.segmento.segmento ELSE Null,
                IF "marca" \in DOMAIN producto THEN producto.marca ELSE Null>>
      kept == SelectSeq(vals, Truthy)
  IN ToLowerCase(Join([i \in 1..Len(kept) |-> Chars(kept[i])]))

\* computed filteredProducts, for a product list l and a search text q
Filtered(l, q) ==
  LET query == ToLowerCase(Trim(Chars(q)))
  IN IF query = << >> THEN l
     ELSE SelectSeq(l, LAMBDA producto : Includes(SearchValues(producto), query))

filteredProducts == Filtered(products, search)

\* ------------------------------------------------------------------ Inventory: form
\* an editProduct that copies an optional text property as it is
TextOrNull(o, k) == IF k \in DOMAIN o THEN o[k] ELSE Null
\* x || "" for an optional text property
TextOrEmpty(o, k) == IF k \in DOMAIN o /\ Truthy(o[k]) THEN o[k] ELSE ""
\* Number(x || 0) for an optional numeric property
NumberOrZero(o, k) == IF k \in DOMAIN o THEN o[k] ELSE 0

\* editProduct: the form built from the record
EditForm(producto) ==
  [cod_producto |-> producto.cod_producto,
   descripcion |-> producto.descripcion,
   linea_id |-> IF "linea" \in DOMAIN producto THEN TextOrEmpty(producto.linea, "id") ELSE "",
   segmento_id |-> IF "segmento" \in DOMAIN producto
                   THEN TextOrEmpty(producto.segmento, "id") ELSE "",
   marca |-> TextOrEmpty(producto, "marca"),
   referencia_producto |-> TextOrEmpty(producto, "referencia_producto"),
   precio_venta1 |-> NumberOrZero(producto, "precio_venta1"),
   precio_venta2 |-> NumberOrZero(producto, "precio_venta2"),
   precio_venta3 |-> NumberOrZero(producto, "precio_venta3"),
   costo_producto |-> NumberOrZero(producto, "costo_producto"),
   existencia |-> IF "saldo" \in DOMAIN producto
                  THEN NumberOrZero(producto.saldo, "existencia") ELSE 0,
   activo |-> producto.activo]

\* What the user may type into the product form (v-model of a field).
FormInputs == {<<"cod_producto", "B">>, <<"cod_producto", "">>, <<"descripcion", "d2">>}
SearchInputs == {"", "zz"}
LineaInputs == {[cod_linea |-> "L2", linea |-> "Ropa", activo |-> TRUE]}
SegmentoInputs == {[segmento |-> "Nino"]}

\* Bodies the catalogs endpoint may answer with.
CatalogBodies ==
  { [lineas |-> <<[id |-> "L1", cod_linea |-> "L1", linea |-> "L1"]>>] }

Range(l) == {l[i] : i \in 1..Len(l)}

\* a refetch that uses the flag its handler started with
FlagAtStart(r) == r.flag

\* this.includeInactive as the handler of request r reads it
FlagOf(r) == IF r.live THEN includeInactive ELSE r.flag

\* A request issued by the handler that was waiting for r: it belongs to the
\* same component instance.
Follow(req, r) == [req EXCEPT !.live = r.live, !.flag = r.flag]

\* ------------------------------------------------------------------ Inventory: user events
invRest == <<token, view, srvProducts, loginVars, homeVars>>

\* v-model of a field of the product form
InputForm(k, v) ==
  /\ view = "inventory"
  /\ form[k] # v
  /\ form' = [form EXCEPT ![k] = v]
  /\ Did("InputForm", k, "", << >>)
  /\ UNCHANGED <<invRest, pending, products, lineas, segmentos, includeInactive,
                 isEditing, editingId, search, lineaForm, segmentoForm>>

\* v-model="search"
InputSearch(q) ==
  /\ view = "inventory"
  /\ search # q
  /\ search' = q
  /\ Did("InputSearch", q, "", << >>)
  /\ UNCHANGED <<invRest, pending, products, lineas, segmentos, includeInactive,
                 isEditing, editingId, lineaForm, segmentoForm, form>>

\* v-model of the line sub-form
InputLineaForm(b) ==
  /\ view = "inventory"
  /\ lineaForm # b
  /\ lineaForm' = b
  /\ Did("InputLineaForm", "", "", << >>)
  /\ UNCHANGED <<invRest, pending, products, lineas, segmentos, includeInactive,
                 isEditing, editingId, search, segmentoForm, form>>

\* v-model of the segment sub-form
InputSegmentoForm(b) ==
  /\ view = "inventory"
  /\ segmentoForm # b
  /\ segmentoForm' = b
  /\ Did("InputSegmentoForm", "", "", << >>)
  /\ UNCHANGED <<invRest, pending, products, lineas, segmentos, includeInactive,
                 isEditing, editingId, search, lineaForm, form>>

\* the include-inactive checkbox: v-model="includeInactive" @change="fetchProducts"
ToggleIncludeInactive ==
  /\ view = "inventory"
  /\ Room(pending, <<ProductsReq(token, ~includeInactive, "change", "")>>)
  /\ includeInactive' = ~includeInactive
  /\ pending' = pending (+) SetToBag({ProductsReq(token, ~includeInactive, "change", "")})
  /\ Did("ToggleIncludeInactive", "", "",
                  <<ProductsReq(token, ~includeInactive, "change", "")>>)
  /\ UNCHANGED <<invRest, products, lineas, segmentos, isEditing, editingId, search,
                 lineaForm, segmentoForm, form>>

\* a save button that is off while a save is waiting
saveProductGuarded ==
  /\ view = "inventory"
  /\ \A r \in BagToSet(pending) : r.op # "save"
  /\ Room(pending, <<SaveReq(token, isEditing, editingId, form)>>)
  /\ pending' = pending (+) SetToBag({SaveReq(token, isEditing, editingId, form)})
  /\ Did("saveProduct", "", "", <<SaveReq(token, isEditing, editingId, form)>>)
  /\ UNCHANGED <<invRest, invVars>>

\* saveProduct(), up to `await fetch`
saveProduct ==
  /\ view = "inventory"
  /\ Room(pending, <<SaveReq(token, isEditing, editingId, form)>>)
  /\ pending' = pending (+) SetToBag({SaveReq(token, isEditing, editingId, form)})
  /\ Did("saveProduct", "", "", <<SaveReq(token, isEditing, editingId, form)>>)
  /\ UNCHANGED <<invRest, invVars>>

\* editProduct(producto), from a row of the table (v-for over filteredProducts)
editProduct(producto) ==
  /\ view = "inventory"
  /\ producto \in Range(filteredProducts)
  /\ isEditing' = TRUE
  /\ editingId' = producto.id
  /\ form' = EditForm(producto)
  /\ Did("editProduct", producto.id, "", << >>)
  /\ UNCHANGED <<invRest, pending, products, lineas, segmentos, includeInactive,
                 search, lineaForm, segmentoForm>>

\* a deactivateProduct that leaves edit mode when its row is the one edited
deactivateProductEndsEdit(producto) ==
  /\ view = "inventory"
  /\ producto \in Range(filteredProducts)
  /\ RoomInv(pending, <<DeactivateReq(token, producto.id)>>)
  /\ pending' = pending (+) SetToBag({DeactivateReq(token, producto.id)})
  /\ IF isEditing /\ editingId = producto.id
     THEN /\ isEditing' = InventoryData.isEditing
          /\ editingId' = InventoryData.editingId
          /\ form' = InventoryData.form
     ELSE UNCHANGED <<isEditing, editingId, form>>
  /\ Did("deactivateProduct", producto.id, "", <<DeactivateReq(token, producto.id)>>)
  /\ UNCHANGED <<invRest, products, lineas, segmentos, includeInactive, search,
                 lineaForm, segmentoForm>>

\* deactivateProduct(producto), up to the first `await fetch`
deactivateProduct(producto) ==
  /\ view = "inventory"
  /\ producto \in Range(filteredProducts)
  /\ RoomInv(pending, <<DeactivateReq(token, producto.id)>>)
  /\ pending' = pending (+) SetToBag({DeactivateReq(token, producto.id)})
  /\ Did("deactivateProduct", producto.id, "", <<DeactivateReq(token, producto.id)>>)
  /\ UNCHANGED <<invRest, invVars>>

\* a resetForm() that leaves editingId as it is
ResetStateKeepsId == [isEditing |-> FALSE, editingId |-> editingId, form |-> EmptyForm]

\* a resetForm() that leaves the fields as they are
ResetStateKeepsForm == [isEditing |-> FALSE, editingId |-> Null, form |-> form]

\* resetForm(): the state it leaves
ResetState == [isEditing |-> FALSE, editingId |-> Null, form |-> EmptyForm]

\* a resetForm() that reloads the list as well
resetFormRefetches ==
  /\ view = "inventory"
  /\ isEditing' = ResetState.isEditing
  /\ editingId' = ResetState.editingId
  /\ form' = ResetState.form
  /\ pending' = pending (+) SetToBag({ProductsReq(token, includeInactive, "resetForm", "")})
  /\ Did("resetForm", "", "", <<ProductsReq(token, includeInactive, "resetForm", "")>>)
  /\ UNCHANGED <<invRest, products, lineas, segmentos, includeInactive,
                 search, lineaForm, segmentoForm>>

\* the "Nuevo" button: resetForm()
resetForm ==
  /\ view = "inventory"
  /\ isEditing' = ResetState.isEditing
  /\ editingId' = ResetState.editingId
  /\ form' = ResetState.form
  /\ Did("resetForm", "", "", << >>)
  /\ UNCHANGED <<invRest, pending, products, lineas, segmentos, includeInactive,
                 search, lineaForm, segmentoForm>>

\* saveLinea(), up to `await fetch`
saveLinea ==
  /\ view = "inventory"
  /\ RoomInv(pending, <<LineaReq(token, lineaForm)>>)
  /\ pending' = pending (+) SetToBag({LineaReq(token, lineaForm)})
  /\ Did("saveLinea", "", "", <<LineaReq(token, lineaForm)>>)
  /\ UNCHANGED <<invRest, invVars>>

\* saveSegmento(), up to `await fetch`
saveSegmento ==
  /\ view = "inventory"
  /\ RoomInv(pending, <<SegmentoReq(token, segmentoForm)>>)
  /\ pending' = pending (+) SetToBag({SegmentoReq(token, segmentoForm)})
  /\ Did("saveSegmento", "", "", <<SegmentoReq(token, segmentoForm)>>)
  /\ UNCHANGED <<invRest, invVars>>

\* resetLineaForm(), from its button
resetLineaForm ==
  /\ view = "inventory"
  /\ lineaForm # EmptyLineaForm
  /\ lineaForm' = EmptyLineaForm
  /\ Did("resetLineaForm", "", "", << >>)
  /\ UNCHANGED <<invRest, pending, products, lineas, segmentos, includeInactive,
                 isEditing, editingId, search, segmentoForm, form>>

\* resetSegmentoForm(), from its button
resetSegmentoForm ==
  /\ view = "inventory"
  /\ segmentoForm # EmptySegmentoForm
  /\ segmentoForm' = EmptySegmentoForm
  /\ Did("resetSegmentoForm", "", "", << >>)
  /\ UNCHANGED <<invRest, pending, products, lineas, segmentos, includeInactive,
                 isEditing, editingId, search, lineaForm, form>>

\* ------------------------------------------------------------------ Inventory: answers
InventoryOps == {"catalogs", "products", "save", "deactivate", "linea", "segmento"}

\* `await fetch(...)` rejects (network failure): no handler of the Inventory
\* view catches it, the handler and its callers end there.
FetchRejected(r) ==
  /\ r.op \in InventoryOps
  /\ pending' = Take(pending, r)
  /\ Did("FetchRejected", "", "neterr", << >>)
  /\ UNCHANGED <<invRest, invVars>>

\* a saveLinea that leaves its sub-form as typed
ResetsLineaNever(caller) == FALSE

\* saveLinea: `await this.fetchCatalogs(); this.resetLineaForm();` - the caller
\* of fetchCatalogs that resets the line sub-form once it has returned
ResetsLineaAfter(caller) == caller = "saveLinea"

\* fetchCatalogs after `await fetch`, then the caller that awaited it:
\* mounted goes on to fetchProducts, saveLinea/saveSegmento reset their sub-form
CatalogsResponse(r, out, data) ==
  LET next == Follow(ProductsReq(token, FlagOf(r), "mounted", ""), r)
      shown == out = "ok" /\ r.live
  IN /\ r.op = "catalogs"
     /\ lineas' = IF shown THEN (IF "lineas" \in DOMAIN data THEN data.lineas ELSE << >>)
                  ELSE lineas
     /\ segmentos' = IF shown
                     THEN (IF "segmentos" \in DOMAIN data THEN data.segmentos ELSE << >>)
                     ELSE segmentos
     /\ lineaForm' = IF ResetsLineaAfter(r.then) /\ r.live THEN EmptyLineaForm ELSE lineaForm
     /\ segmentoForm' = IF r.then = "saveSegmento" /\ r.live
                        THEN EmptySegmentoForm ELSE segmentoForm
     /\ pending' = IF r.then = "mounted"
                   THEN Take(pending, r) (+) SetToBag({next})
                   ELSE Take(pending, r)
     /\ Did("CatalogsResponse", r.then, out,
                     IF r.then = "mounted" THEN <<next>> ELSE << >>)
     /\ UNCHANGED <<invRest, products, includeInactive, isEditing, editingId, search, form>>

\* a deactivateProduct that resets the form as saveProduct does
ResetsAfterAnyMutation(caller) == caller \in {"saveProduct", "deactivateProduct"}

\* saveProduct: `await this.fetchProducts(); this.resetForm();` - the callers
\* of fetchProducts that reset the form once it has returned
ResetsAfter(caller) == caller = "saveProduct"

\* a fetchProducts that assigns the body whatever the status
ShownProductsAnyStatus(r) == IF r.live THEN r.data ELSE products

\* fetchProducts: `if (res.ok) this.products = await res.json()` - the list
\* shown once the handler of request r has gone on
ShownProducts(r) == IF r.resp = "ok" /\ r.live THEN r.data ELSE products

\* a saveProduct that keeps a row selected while it waited
ProductsResponseKeepsEdit(r) ==
  /\ r.op = "products"
  /\ r.resp # "none"
  /\ products' = ShownProducts(r)
  /\ IF ResetsAfter(r.then) /\ r.live /\ ~isEditing
     THEN /\ isEditing' = ResetState.isEditing
          /\ editingId' = ResetState.editingId
          /\ form' = ResetState.form
     ELSE UNCHANGED <<isEditing, editingId, form>>
  /\ pending' = Take(pending, r)
  /\ Did("ProductsResponse", r.then \o ":" \o r.after, r.resp, << >>)
  /\ UNCHANGED <<invRest, lineas, segmentos, includeInactive, search, lineaForm,
                 segmentoForm>>

\* a saveProduct that resets the form only when the refetch was a success
ProductsResponseResetsOnOk(r) ==
  /\ r.op = "products"
  /\ r.resp # "none"
  /\ products' = ShownProducts(r)
  /\ IF ResetsAfter(r.then) /\ r.live /\ r.resp = "ok"
     THEN /\ isEditing' = ResetState.isEditing
          /\ editingId' = ResetState.editingId
          /\ form' = ResetState.form
     ELSE UNCHANGED <<isEditing, editingId, form>>
  /\ pending' = Take(pending, r)
  /\ Did("ProductsResponse", r.then \o ":" \o r.after, r.resp, << >>)
  /\ UNCHANGED <<invRest, lineas, segmentos, includeInactive, search, lineaForm,
                 segmentoForm>>

\* fetchProducts after `await fetch`, then the caller that awaited it
ProductsResponse(r) ==
  /\ r.op = "products"
  /\ r.resp # "none"
  /\ products' = ShownProducts(r)
  /\ IF ResetsAfter(r.then) /\ r.live
     THEN /\ isEditing' = ResetState.isEditing
          /\ editingId' = ResetState.editingId
          /\ form' = ResetState.form
     ELSE UNCHANGED <<isEditing, editingId, form>>
  /\ pending' = Take(pending, r)
  /\ Did("ProductsResponse", r.then \o ":" \o r.after, r.resp, << >>)
  /\ UNCHANGED <<invRest, lineas, segmentos, includeInactive, search, lineaForm,
                 segmentoForm>>

\* a saveProduct that refetches and resets whatever the status
RefetchAfterSaveAlways(resp) == TRUE

\* saveProduct: `if (res.ok)` decides whether fetchProducts is called
RefetchAfterSave(resp) == resp = "ok"

\* saveProduct after `await fetch`
SaveResponse(r) ==
  LET next == Follow(ProductsReq(token, FlagOf(r), "saveProduct", r.resp), r)
  IN /\ r.op = "save"
     /\ r.resp # "none"
     /\ pending' = IF RefetchAfterSave(r.resp)
                   THEN Take(pending, r) (+) SetToBag({next})
                   ELSE Take(pending, r)
     /\ Did("SaveResponse", "", r.resp,
                     IF RefetchAfterSave(r.resp) THEN <<next>> ELSE << >>)
     /\ UNCHANGED <<invRest, invVars>>

\* deactivateProduct after `await fetch`: the answer's status is not looked at
DeactivateResponse(r) ==
  LET next == Follow(ProductsReq(token, FlagOf(r), "deactivateProduct", r.resp), r)
  IN /\ r.op = "deactivate"
     /\ r.resp # "none"
     /\ pending' = Take(pending, r) (+) SetToBag({next})
     /\ Did("DeactivateResponse", "", r.resp, <<next>>)
     /\ UNCHANGED <<invRest, invVars>>

\* saveLinea / saveSegmento after `await fetch`: `if (res.ok)` fetchCatalogs
CatalogSaveResponse(r, out) ==
  LET next == Follow(CatalogsReq(token, IF r.op = "linea" THEN "saveLinea"
                                        ELSE "saveSegmento"), r)
  IN /\ r.op \in {"linea", "segmento"}
     /\ pending' = IF out = "ok"
                   THEN Take(pending, r) (+) SetToBag({next})
                   ELSE Take(pending, r)
     /\ Did("CatalogSaveResponse", "", out, IF out = "ok" THEN <<next>> ELSE << >>)
     /\ UNCHANGED <<invRest, invVars>>

\* ------------------------------------------------------------------ specification
\* The Login and Home components as their data() leaves them.
SetLoginInit ==
  /\ email = LoginData.email /\ password = LoginData.password
  /\ remember = LoginData.remember /\ error = LoginData.error
SetHomeInit ==
  /\ displayName = HomeData.displayName /\ role = HomeData.role
  /\ branches = HomeData.branches /\ activeBranch = HomeData.activeBranch
  /\ accessError = HomeData.accessError

Init ==
  /\ token \in {Null} \cup Tokens
  /\ view = "boot"
  /\ pending = EmptyBag
  /\ srvProducts = << >>
  /\ email = LoginData.email /\ password = LoginData.password
  /\ remember = LoginData.remember /\ error = LoginData.error
  /\ displayName = HomeData.displayName /\ role = HomeData.role
  /\ branches = HomeData.branches /\ activeBranch = HomeData.activeBranch
  /\ accessError = HomeData.accessError
  /\ products = InventoryData.products /\ lineas = InventoryData.lineas
  /\ segmentos = InventoryData.segmentos
  /\ includeInactive = InventoryData.includeInactive
  /\ isEditing = InventoryData.isEditing /\ editingId = InventoryData.editingId
  /\ search = InventoryData.search /\ lineaForm = InventoryData.lineaForm
  /\ segmentoForm = InventoryData.segmentoForm /\ form = InventoryData.form
  /\ last = Step("Init", "", "", << >>)
  /\ edited = Null

\* The session: page load, Login, Home, and the activation of Inventory.
Next ==
  \/ \E to \in Routes : PageLoad(to)
  \/ \E e \in Emails \cup {""}, p \in Passwords \cup {""} : InputLogin(e, p, remember)
  \/ InputLogin(email, password, ~remember)
  \/ login
  \/ \E r \in BagToSet(pending) : LoginRejected(r)
  \/ \E r \in BagToSet(pending) : LoginNetError(r)
  \/ \E r \in BagToSet(pending), t \in Tokens : LoginAccepted(r, t)
  \/ logout
  \/ \E r \in BagToSet(pending), out \in {"fail", "neterr"} : MeFailed(r, out)
  \/ \E r \in BagToSet(pending), data \in Profiles : MeAccepted(r, data)
  \/ \E b \in Range(branches) : setBranch(b)
  \/ GoInventory
  \/ \E r \in BagToSet(pending) : ServeOk(r)
  \/ \E r \in BagToSet(pending) : ServeFail(r)
  \/ \E r \in BagToSet(pending) : FetchRejected(r)
  \/ \E r \in BagToSet(pending), out \in {"ok", "fail"}, data \in CatalogBodies :
        CatalogsResponse(r, out, data)
  \/ \E r \in BagToSet(pending) : ProductsResponse(r)

Spec == Init /\ [][Next]_vars

\* The Inventory view, opened with a stored token: every event of its product
\* form, list and catalogs, and every answer.
InitInv == Init /\ token = "t1"

NextInv ==
  \/ PageLoad("/inventory")
  \/ \E in \in FormInputs : InputForm(in[1], in[2])
  \/ \E q \in SearchInputs : InputSearch(q)
  \/ (InFlight(pending) < MaxInvInFlight /\ ToggleIncludeInactive)
  \/ (InFlight(pending) < MaxInvInFlight /\ saveProduct)
  \/ \E p \in Range(products) : editProduct(p)
  \/ \E p \in Range(products) : deactivateProduct(p)
  \/ resetForm
  \/ saveLinea
  \/ saveSegmento
  \/ \E r \in BagToSet(pending) : ServeOk(r)
  \/ \E r \in BagToSet(pending) : ServeFail(r)
  \/ \E r \in BagToSet(pending) : FetchRejected(r)
  \/ \E r \in BagToSet(pending), out \in {"ok", "fail"}, data \in CatalogBodies :
        CatalogsResponse(r, out, data)
  \/ \E r \in BagToSet(pending) : ProductsResponse(r)
  \/ \E r \in BagToSet(pending) : SaveResponse(r)
  \/ \E r \in BagToSet(pending) : DeactivateResponse(r)
  \/ \E r \in BagToSet(pending), out \in {"ok", "fail"} : CatalogSaveResponse(r, out)

SpecInv == InitInv /\ [][NextInv]_vars

\* The product list under overlapping requests: the include-inactive checkbox
\* may be used while the request of a save or a deactivate, or its refetch, is
\* still waiting, and answers arrive in any order.
NextRace ==
  \/ PageLoad("/inventory")
  \/ InputForm("cod_producto", "B")
  \/ ToggleIncludeInactive
  \/ (InFlight(pending) < MaxInvInFlight /\ saveProduct)
  \/ \E p \in Range(products) : deactivateProduct(p)
  \/ \E r \in BagToSet(pending) : ServeOk(r)
  \/ \E r \in BagToSet(pending) : ServeFail(r)
  \/ \E r \in BagToSet(pending), data \in CatalogBodies : CatalogsResponse(r, "ok", data)
  \/ \E r \in BagToSet(pending) : ProductsResponse(r)
  \/ \E r \in BagToSet(pending) : SaveResponse(r)
  \/ \E r \in BagToSet(pending) : DeactivateResponse(r)

SpecRace == InitInv /\ [][NextRace]_vars

\* The whole client: the session together with every handler of the Inventory
\* view that issues a request, from any token slot content.
NextAll ==
  \/ Next
  \/ InputForm("cod_producto", "B")
  \/ (InFlight(pending) < MaxInvInFlight /\ ToggleIncludeInactive)
  \/ (InFlight(pending) < MaxInvInFlight /\ saveProduct)
  \/ \E p \in Range(products) : deactivateProduct(p)
  \/ saveLinea
  \/ saveSegmento
  \/ \E r \in BagToSet(pending) : SaveResponse(r)
  \/ \E r \in BagToSet(pending) : DeactivateResponse(r)
  \/ \E r \in BagToSet(pending), out \in {"ok", "fail"} : CatalogSaveResponse(r, out)

SpecAll == Init /\ [][NextAll]_vars

\* The catalog sub-forms of the Inventory view: typing a line or a segment,
\* saving it, the refetch of the catalogs, beside a product form in use.
NextCat ==
  \/ PageLoad("/inventory")
  \/ InputForm("cod_producto", "B")
  \/ \E b \in LineaInputs : InputLineaForm(b)
  \/ \E b \in SegmentoInputs : InputSegmentoForm(b)
  \/ (InFlight(pending) < MaxInvInFlight /\ saveProduct)
  \/ \E p \in Range(products) : editProduct(p)
  \/ saveLinea
  \/ saveSegmento
  \/ resetLineaForm
  \/ resetSegmentoForm
  \/ \E r \in BagToSet(pending) : ServeOk(r)
  \/ \E r \in BagToSet(pending) : ServeFail(r)
  \/ \E r \in BagToSet(pending) : FetchRejected(r)
  \/ \E r \in BagToSet(pending), out \in {"ok", "fail"}, data \in CatalogBodies :
        CatalogsResponse(r, out, data)
  \/ \E r \in BagToSet(pending) : ProductsResponse(r)
  \/ \E r \in BagToSet(pending) : SaveResponse(r)
  \/ \E r \in BagToSet(pending), out \in {"ok", "fail"} : CatalogSaveResponse(r, out)

SpecCat == InitInv /\ [][NextCat]_vars

\* The save button pressed again while a save is waiting: nothing in the view
\* is disabled while a request is in flight.
NextDup ==
  \/ PageLoad("/inventory")
  \/ \E in \in FormInputs : InputForm(in[1], in[2])
  \/ saveProduct
  \/ \E r \in BagToSet(pending) : ServeOk(r)
  \/ \E r \in BagToSet(pending) : ServeFail(r)
  \/ \E r \in BagToSet(pending), data \in CatalogBodies : CatalogsResponse(r, "ok", data)
  \/ \E r \in BagToSet(pending) : ProductsResponse(r)
  \/ \E r \in BagToSet(pending) : SaveResponse(r)

SpecDup == InitInv /\ [][NextDup]_vars

\* The text search over a fetched list: the view shows a list the backend has
\* answered with, nothing is waiting, and the user types into the search box.
MaxShown == 2

\* Product records of a list answer.
SearchProducts ==
  { [id |-> "1", cod_producto |-> "B", descripcion |-> "d1", activo |-> TRUE],
    [id |-> "2", cod_producto |-> "b", descripcion |-> "D1", activo |-> TRUE],
    [id |-> "3", cod_producto |-> "A", descripcion |-> "d2",
     linea |-> [id |-> "L1", linea |-> "L1"],
     segmento |-> [id |-> "S1", segmento |-> "S1"], marca |-> "M", activo |-> TRUE],
    [id |-> "4", cod_producto |-> "a", descripcion |-> "d2",
     linea |-> [id |-> "L1", linea |-> "l1"],
     segmento |-> [id |-> "S1", segmento |-> "s1"], marca |-> "m", activo |-> FALSE] }

SearchLists == UNION {[1..n -> SearchProducts] : n \in 0..MaxShown}

\* What the user may type into the search box.
SearchQueries == {"", " ", "b", "B", " b ", "l1", "L1", "M", "zz"}

InitSearch ==
  /\ token = "t1"
  /\ view = "inventory"
  /\ pending = EmptyBag
  /\ products \in SearchLists
  /\ srvProducts = products
  /\ SetLoginInit
  /\ SetHomeInit
  /\ lineas = InventoryData.lineas /\ segmentos = InventoryData.segmentos
  /\ includeInactive = TRUE
  /\ isEditing = InventoryData.isEditing /\ editingId = InventoryData.editingId
  /\ search = InventoryData.search /\ lineaForm = InventoryData.lineaForm
  /\ segmentoForm = InventoryData.segmentoForm /\ form = InventoryData.form
  /\ last = Step("Init", "", "", << >>)
  /\ edited = Null

NextSearch == \E q \in SearchQueries : InputSearch(q)

SpecSearch == InitSearch /\ [][NextSearch]_vars

\* Editing a row of a fetched list: the records differ in which optional
\* properties they carry (a property that is null is left out of the record;
\* a text property may also be null or empty).
EditProducts ==
  { [id |-> "1", cod_producto |-> "B", descripcion |-> "d1", activo |-> TRUE],
    [id |-> "2", cod_producto |-> "A", descripcion |-> "d2",
     linea |-> [id |-> "L1", linea |-> "L1"],
     segmento |-> [id |-> "S1", segmento |-> "S1"],
     marca |-> "M", referencia_producto |-> "R",
     precio_venta1 |-> 3, precio_venta2 |-> 2, precio_venta3 |-> 1,
     costo_producto |-> 1, saldo |-> [existencia |-> 4], activo |-> FALSE],
    [id |-> "3", cod_producto |-> "a", descripcion |-> "D1",
     linea |-> [linea |-> "l1"], segmento |-> [id |-> Null, segmento |-> "s1"],
     marca |-> Null, referencia_producto |-> "",
     precio_venta1 |-> 0, costo_producto |-> 2, saldo |-> [costo_promedio |-> 1],
     activo |-> TRUE] }

EditLists == UNION {[1..n -> EditProducts] : n \in 0..MaxShown}

InitEdit ==
  /\ token = "t1"
  /\ view = "inventory"
  /\ pending = EmptyBag
  /\ products \in EditLists
  /\ srvProducts = products
  /\ SetLoginInit
  /\ SetHomeInit
  /\ lineas = InventoryData.lineas /\ segmentos = InventoryData.segmentos
  /\ includeInactive = TRUE
  /\ isEditing = InventoryData.isEditing /\ editingId = InventoryData.editingId
  /\ search = InventoryData.search /\ lineaForm = InventoryData.lineaForm
  /\ segmentoForm = InventoryData.segmentoForm /\ form = InventoryData.form
  /\ last = Step("Init", "", "", << >>)
  /\ edited = Null

NextEdit ==
  \/ \E producto \in Range(products) : editProduct(producto)
  \/ resetForm
  \/ \E kv \in FormInputs : InputForm(kv[1], kv[2])
  \/ \E q \in SearchInputs : InputSearch(q)

SpecEdit == InitEdit /\ [][NextEdit]_vars

\* `await fetch(/auth/me)` comes back: a who-am-I request that is waiting is
\* answered or fails.
MeAnswer ==
  \E r \in BagToSet(pending) :
     \/ \E out \in {"fail", "neterr"} : MeFailed(r, out)
     \/ \E data \in Profiles : MeAccepted(r, data)

\* The session, every who-am-I request being answered in the end.
SpecLive == Init /\ [][Next]_vars /\ WF_vars(MeAnswer)

\* The session with the browser's history buttons in use.
NextNav ==
  \/ Next
  \/ \E to \in Routes : Visit(to)

SpecNav == Init /\ [][NextNav]_vars

\* Saving with a line or a segment chosen: the catalogs are loaded, the list
\* shown has rows with and without a line, and the user picks an option of the
\* two selects, edits a row, and saves.
PayLineas == <<[id |-> "L1", cod_linea |-> "L1", linea |-> "L1"]>>
PaySegmentos == <<[id |-> "S1", segmento |-> "S1"]>>
\* the lists shown: one row, with or without a line and a segment
PayLists == {<<producto>> : producto \in EditProducts}

InitPay ==
  /\ token = "t1"
  /\ view = "inventory"
  /\ pending = EmptyBag
  /\ products \in PayLists
  /\ srvProducts = products
  /\ SetLoginInit
  /\ SetHomeInit
  /\ lineas = PayLineas /\ segmentos = PaySegmentos
  /\ includeInactive = TRUE
  /\ isEditing = InventoryData.isEditing /\ editingId = InventoryData.editingId
  /\ search = InventoryData.search /\ lineaForm = InventoryData.lineaForm
  /\ segmentoForm = InventoryData.segmentoForm /\ form = InventoryData.form
  /\ last = Step("Init", "", "", << >>)
  /\ edited = Null

\* <select v-model="form.linea_id">: the options are "" and the lines loaded
SelectLinea == \E v \in {""} \cup {l.id : l \in Range(lineas)} : InputForm("linea_id", v)
\* <select v-model="form.segmento_id">
SelectSegmento ==
  \E v \in {""} \cup {g.id : g \in Range(segmentos)} : InputForm("segmento_id", v)

NextPay ==
  \/ \E producto \in Range(products) : editProduct(producto)
  \/ resetForm
  \/ SelectLinea
  \/ SelectSegmento
  \/ (InFlight(pending) < MaxInvInFlight /\ saveProduct)
  \/ \E r \in BagToSet(pending) : ServeOk(r)
  \/ \E r \in BagToSet(pending) : ServeFail(r)
  \/ \E r \in BagToSet(pending) : FetchRejected(r)
  \/ \E r \in BagToSet(pending) : SaveResponse(r)
  \/ \E r \in BagToSet(pending) : ProductsResponse(r)

SpecPay == InitPay /\ [][NextPay]_vars

\* ================================================================== claims
\* A protected view was activated in the last step.
Activated(v) ==
  \/ last.act = "PageLoad" /\ RouteView(last.arg) = v
  \/ last.act = "GoInventory" /\ v = "inventory"

\* C1: when a protected view (Home or Inventory) is activated while the token
\* slot is empty, the client ends on the login view and the activation issues
\* no network request.  (The statement of the claim; the Inventory view breaks it.)
C1_NoTokenNoRequest ==
  ((Activated("home") \/ Activated("inventory")) /\ token = Null)
    => (view = "login" /\ last.sent = << >>)

\* C2: in the Home guard, a non-success answer to the who-am-I request, or its
\* failure with a network error, removes the token from local storage and
\* leaves the client on the login view.
C2_RejectedTokenCleared ==
  (last.act = "MeResponse" /\ last.out \in {"fail", "neterr"})
    => (token = Null /\ view = "login")

C2_Witness ==
  /\ last.act = "MeResponse" /\ last.out \in {"fail", "neterr"}
  /\ last.arg.live
  /\ token = Null /\ view = "login"

\* C3: after a success answer to the who-am-I request of the Home guard, the
\* role "administrador" stays on Home (no navigation), keeps the token and sees
\* the branch buttons (canChooseBranch); every other role, "seguridad" too,
\* has the token removed and ends on the login view.  A guard whose Home
\* instance is no longer shown neither navigates nor touches the token for
\* "administrador".
C3_Step ==
  (last'.act = "MeResponse" /\ last'.out \notin {"fail", "neterr"})
    => IF last'.out = "administrador"
       THEN /\ token' = token
            /\ view' = view
            /\ last'.arg.live => (view' = "home" /\ Truthy(token') /\ canChooseBranch')
       ELSE token' = Null /\ view' = "login"

C3_RoleDecides == [][C3_Step]_vars

C3_Witness ==
  /\ last.act = "MeResponse" /\ last.out = "seguridad" /\ last.arg.live
  /\ token = Null /\ view = "login"

\* C4: the session guard runs on the Inventory view too: activating Inventory
\* with a stored token issues no inventory request (catalogs, products) before
\* the who-am-I endpoint has accepted the token: the request the activation
\* issues is the who-am-I request.  (The statement of the claim; Inventory.vue
\* has no guard.)
C4_InventoryGuarded ==
  (Activated("inventory") /\ Truthy(token))
    => (\A i \in 1..Len(last.sent) : last.sent[i].op = "me")

\* C6: a non-success answer to the login request sets the error to the
\* invalid-credentials text, writes nothing to the token slot and navigates
\* nowhere: the user stays on the login view.
C6_Step ==
  (last'.act = "LoginResponse" /\ last'.out = "fail")
    => /\ token' = token
       /\ view' = view
       /\ last'.sent = << >>
       /\ last'.arg.live => (view' = "login" /\ error' = "Credenciales incorrectas")

C6_RejectedLogin == [][C6_Step]_vars

C6_Witness ==
  /\ last.act = "LoginResponse" /\ last.out = "fail" /\ last.arg.live
  /\ view = "login" /\ error = "Credenciales incorrectas"

\* C7: a login request that fails with a network exception sets the error to
\* the connection-error text, which is not the invalid-credentials text;
\* nothing is written to the token slot and there is no navigation.
C7_Step ==
  (last'.act = "LoginResponse" /\ last'.out = "neterr")
    => /\ token' = token
       /\ view' = view
       /\ last'.sent = << >>
       /\ last'.arg.live => /\ view' = "login"
                            /\ error' = "Error de conexion"
                            /\ error' # InvalidCredentials

C7_NetworkError == [][C7_Step]_vars

C7_Witness ==
  /\ last.act = "LoginResponse" /\ last.out = "neterr" /\ last.arg.live
  /\ view = "login" /\ error = ConnectionError /\ error # InvalidCredentials

\* C8: a success answer to the login request writes the answer's access token
\* to the token slot and then navigates to /home; the write comes first, so the
\* Home guard that the navigation activates reads the new token: its who-am-I
\* request carries it.
C8_Step ==
  (last'.act = "LoginResponse" /\ last'.out = "ok")
    => /\ token' = last'.arg.access_token
       /\ view' = "home"
       /\ last'.sent = IF view = "home" THEN << >> ELSE <<MeReq(last'.arg.access_token)>>
       /\ \A i \in 1..Len(last'.sent) : BagIn(last'.sent[i], pending')

C8_LoginStoresThenNavigates == [][C8_Step]_vars

C8_Witness ==
  /\ last.act = "LoginResponse" /\ last.out = "ok" /\ last.arg.live
  /\ view = "home" /\ token = last.arg.access_token
  /\ last.sent = <<MeReq(token)>>

\* The step is the answer to a product-list request r, handled by fetchProducts.
AnswersList(r) ==
  /\ last'.act = "ProductsResponse"
  /\ r.op = "products" /\ r.resp # "none" /\ r.resp = last'.out
  /\ last'.arg = r.then \o ":" \o r.after
  /\ pending' = Take(pending, r)

\* The step issues exactly one product-list request for `caller`, with the
\* include-inactive flag and the token of that moment.
Refetches(caller, after) ==
  /\ Len(last'.sent) = 1
  /\ last'.sent[1] = ProductsReq(token, includeInactive, caller, after)
  /\ BagIn(last'.sent[1], pending')

\* C5 (the statement of the claim, its part about the mode): after any
\* successful product create, update or deactivate call whose refetch was
\* answered with success, the form is back in create mode.
C5_ResetAfterAnyMutation ==
  (/\ last.act = "ProductsResponse" /\ last.out = "ok"
   /\ last.arg \in {"saveProduct:ok", "deactivateProduct:ok"})
    => (~isEditing /\ editingId = Null)

\* C5 (amended): a successful create or update answer is followed by a refetch
\* of the list; once that refetch is answered the form is in create mode with
\* every field at its default value, and when it is answered with success the
\* list shown is the body of that answer.  A deactivate answer is followed by a
\* refetch too, whose success answer replaces the list, but neither the
\* deactivate call nor its refetch changes the mode or the form.
C5_Step ==
  /\ (last'.act = "SaveResponse" /\ last'.out = "ok") => Refetches("saveProduct", "ok")
  /\ last'.act = "DeactivateResponse" => Refetches("deactivateProduct", last'.out)
  /\ last'.act \in {"deactivateProduct", "DeactivateResponse"}
       => UNCHANGED <<isEditing, editingId, form>>
  /\ \A r \in BagToSet(pending) :
       (AnswersList(r) /\ r.live) =>
          /\ r.resp = "ok" => products' = r.data
          /\ r.then = "saveProduct" => (~isEditing' /\ editingId' = Null /\ form' = EmptyForm)
          /\ r.then = "deactivateProduct" => UNCHANGED <<isEditing, editingId, form>>

C5_ResetAfterSave == [][C5_Step]_vars

C5_Witness ==
  /\ last.act = "ProductsResponse" /\ last.out = "ok" /\ last.arg = "saveProduct:ok"
  /\ edited # Null
  /\ ~isEditing /\ editingId = Null /\ form = EmptyForm
  /\ Len(products) > 0 /\ products = srvProducts

\* C9: the product form starts in create mode; edit mode is entered only by
\* editProduct on a record of the list and is left only by resetForm or by a
\* successful save (when the refetch that follows it is answered).  No other
\* step (failed save, deactivate, list refetch, catalog save, include-inactive
\* toggle, search input) changes the mode.
C9_Step ==
  /\ last'.act = "PageLoad" => (~isEditing' /\ editingId' = Null)
  /\ (~isEditing /\ isEditing') =>
        /\ last'.act = "editProduct"
        /\ \E i \in 1..Len(products) : products[i].id = editingId'
  /\ (isEditing /\ ~isEditing') =>
        \/ last'.act = "resetForm"
        \/ last'.act = "ProductsResponse" /\ last'.arg = "saveProduct:ok"

C9_ModeMachine == ~isEditing /\ [][C9_Step]_vars

C9_Witness ==
  /\ isEditing
  /\ last.act = "ProductsResponse" /\ last.out = "ok" /\ last.arg = "deactivateProduct:ok"

\* C10: a save issued in edit mode is a PUT to the endpoint of the record the
\* latest editProduct selected, and its payload has no cod_producto; a save
\* issued in create mode is a POST to the collection endpoint whose payload has
\* every form field, the product code included.  No step changes the code of a
\* record the backend holds.
C10_Step ==
  /\ last'.act = "saveProduct" =>
       /\ Len(last'.sent) = 1
       /\ BagIn(last'.sent[1], pending')
       /\ IF isEditing
          THEN /\ last'.sent[1].method = "PUT"
               /\ last'.sent[1].url = "/inventory/products/" \o edited
               /\ "cod_producto" \notin DOMAIN last'.sent[1].body
               /\ DOMAIN last'.sent[1].body = DOMAIN form \ {"cod_producto"}
          ELSE /\ last'.sent[1].method = "POST"
               /\ last'.sent[1].url = "/inventory/products"
               /\ DOMAIN last'.sent[1].body = DOMAIN form
               /\ last'.sent[1].body.cod_producto = form.cod_producto
  /\ \A i \in 1..Len(srvProducts) :
       /\ i <= Len(srvProducts')
       /\ srvProducts'[i].id = srvProducts[i].id
       /\ srvProducts'[i].cod_producto = srvProducts[i].cod_producto

C10_CodeImmutable == [][C10_Step]_vars

\* An update was accepted for a record while the form held another code.
C10_Witness ==
  /\ last.act = "Serve" /\ last.out = "ok"
  /\ \E r \in BagToSet(pending) :
       /\ r.op = "save" /\ r.method = "PUT" /\ r.resp = "ok"
       /\ r.url = "/inventory/products/" \o edited
  /\ isEditing /\ form.cod_producto = ""
  /\ \E i \in 1..Len(srvProducts) :
       srvProducts[i].id = edited /\ srvProducts[i].cod_producto = "B"

\* C11 (the statement of the claim, for answers that are all successes): when
\* the answer to a product-list request has been received with success, a
\* product exists in the backend and no request is waiting any more, the list
\* shown is the backend's product collection for the include-inactive setting
\* of that moment.  (Two list requests that overlap are answered in any order
\* and the answer that arrives last is the one shown.)
C11_NoDrift ==
  (/\ view = "inventory" /\ pending = EmptyBag /\ srvProducts # << >>
   /\ last.act = "ProductsResponse" /\ last.out = "ok")
    => products = Listing(includeInactive)

\* C12: the list shown starts empty; a step changes it only when it is the
\* success answer to a product-list request, and then the list is exactly the
\* body of that answer; every success answer received by the view that is
\* shown replaces the list by its body.  No save, deactivate, edit, reset,
\* form or search step, and no answer to a save or a deactivate, changes it.
C12_Step ==
  /\ \A r \in BagToSet(pending) :
       (AnswersList(r) /\ r.live /\ r.resp = "ok") => products' = r.data
  /\ products' # products =>
       \E r \in BagToSet(pending) :
          AnswersList(r) /\ r.live /\ r.resp = "ok" /\ products' = r.data
  /\ last'.act \in {"saveProduct", "SaveResponse", "deactivateProduct",
                    "DeactivateResponse", "editProduct", "resetForm", "InputForm",
                    "InputSearch", "Serve"} => products' = products

C12_LastFetchWins == products = << >> /\ [][C12_Step]_vars

\* After a local step the list shown is still an earlier answer's body, though
\* the backend holds something else by now.
C12_Witness ==
  /\ last.act = "resetForm" /\ edited # Null
  /\ Len(products) > 0 /\ Len(srvProducts) > 0 /\ products # srvProducts

\* Two characters that are the same letter in either casing.
SameLetter(c, d) ==
  \/ c = d
  \/ \E pair \in {<<"a", "A">>, <<"b", "B">>, <<"d", "D">>, <<"l", "L">>,
                  <<"m", "M">>, <<"s", "S">>, <<"z", "Z">>} :
        <<c, d>> = pair \/ <<d, c>> = pair

\* Two texts that differ in letter-casing only.
SameText(a, b) ==
  /\ Len(Chars(a)) = Len(Chars(b))
  /\ \A i \in 1..Len(Chars(a)) : SameLetter(Chars(a)[i], Chars(b)[i])

\* The five texts of a record the search looks at ("" for one it lacks).
SearchedTexts(p) ==
  <<p.cod_producto, p.descripcion,
    IF "linea" \in DOMAIN p THEN p.linea.linea ELSE "",
    IF "segmento" \in DOMAIN p THEN p.segmento.segmento ELSE "",
    IF "marca" \in DOMAIN p THEN p.marca ELSE "">>

\* Lists of the same length whose records differ in letter-casing only.
CaseTwins(l, m) ==
  /\ Len(l) = Len(m)
  /\ \A i \in 1..Len(l), k \in 1..5 : SameText(SearchedTexts(l[i])[k], SearchedTexts(m[i])[k])

\* The positions of list l the filter keeps for search text q.
MatchIdx(l, q) == {i \in 1..Len(l) : Filtered(<<l[i]>>, q) # << >>}

\* a is b with some elements left out (same order).
RECURSIVE IsSubList(_, _)
IsSubList(a, b) ==
  IF a = << >> THEN TRUE
  ELSE IF b = << >> THEN FALSE
  ELSE IF Head(a) = Head(b) THEN IsSubList(Tail(a), Tail(b))
  ELSE IsSubList(a, Tail(b))

\* C13: the rows shown are the whole fetched list when the search text is
\* empty or blank, no row when the text occurs in no record ("zz"), always the
\* fetched list with some rows left out (same order); a search text that
\* differs from the present one in letter-casing only gives the same rows, and
\* a list whose codes, descriptions, lines, segments and brands differ in
\* letter-casing only has the same positions kept.  Typing into the search box
\* issues no request and leaves the fetched list as it is.
C13_Rows ==
  /\ search \in {"", " "} => filteredProducts = products
  /\ search = "zz" => filteredProducts = << >>
  /\ IsSubList(filteredProducts, products)
  /\ \A i \in 1..Len(filteredProducts) : filteredProducts[i] \in Range(products)
  /\ \A q \in SearchQueries :
       SameText(q, search) => Filtered(products, q) = filteredProducts
  /\ \A m \in SearchLists :
       CaseTwins(products, m) => MatchIdx(m, search) = MatchIdx(products, search)

C13_Step ==
  last'.act = "InputSearch" =>
    /\ pending' = pending /\ last'.sent = << >>
    /\ UNCHANGED <<products, srvProducts>>

C13_LocalSearch == []C13_Rows /\ [][C13_Step]_vars

\* A blank-padded lower-case text keeps the row whose code is in upper case
\* and drops the other row.
C13_Witness ==
  /\ last.act = "InputSearch" /\ search = " b "
  /\ Len(products) = 2 /\ Len(filteredProducts) = 1
  /\ filteredProducts[1].cod_producto = "B"

\* C14: selecting a row for editing and cancelling with resetForm issue no
\* request and leave the list shown, the catalogs and the backend as they are;
\* editProduct enters edit mode on the row's identifier with the row's code in
\* the form, and resetForm ends in create mode with every form field at its
\* data() value.
C14_Step ==
  /\ last'.act \in {"editProduct", "resetForm"} =>
       /\ pending' = pending /\ last'.sent = << >>
       /\ UNCHANGED <<products, lineas, segmentos, srvProducts>>
  /\ last'.act = "editProduct" =>
       /\ isEditing' /\ editingId' = last'.arg
       /\ \E i \in 1..Len(products) :
            products[i].id = last'.arg /\ form'.cod_producto = products[i].cod_producto
  /\ last'.act = "resetForm" =>
       /\ ~isEditing' /\ editingId' = Null
       /\ form' = InventoryData.form

C14_EditCancelLocal == [][C14_Step]_vars

\* A row was selected, and the cancel left create mode, the default form, the
\* list and nothing waiting.
C14_Witness ==
  /\ last.act = "resetForm" /\ edited # Null
  /\ \E i \in 1..Len(products) : products[i].id = edited
  /\ ~isEditing /\ editingId = Null /\ form = InventoryData.form
  /\ pending = EmptyBag

\* C15: a non-success answer to a product save, a line save, a segment save
\* or a deactivate changes nothing the view holds: mode, form, sub-forms, list
\* shown, catalogs and the include-inactive flag are what they were before the
\* answer, and no error text is set.  After a failed save of a product, a line
\* or a segment no request is issued either; deactivateProduct does not look
\* at the status and goes on to its list refetch as after a success.
C15_Step ==
  /\ (last'.act \in {"SaveResponse", "CatalogSaveResponse", "DeactivateResponse"}
        /\ last'.out = "fail") =>
       /\ UNCHANGED <<isEditing, editingId, form, lineaForm, segmentoForm, products,
                      lineas, segmentos, includeInactive, search>>
       /\ UNCHANGED <<error, accessError, view, token>>
  /\ (last'.act \in {"SaveResponse", "CatalogSaveResponse"} /\ last'.out = "fail") =>
       /\ last'.sent = << >>
       /\ \E r \in BagToSet(pending) :
            r.op \in {"save", "linea", "segmento"} /\ pending' = Take(pending, r)
  /\ (last'.act = "DeactivateResponse" /\ last'.out = "fail") =>
       Refetches("deactivateProduct", "fail")

C16_Step ==
  /\ token' # token =>
       \/ /\ last'.act = "LoginResponse" /\ last'.out = "ok"
          /\ token' = last'.arg.access_token /\ token' \in Tokens
       \/ /\ token' = Null
          /\ \/ last'.act = "logout"
             \/ last'.act = "MeResponse" /\ last'.out # "administrador"
  /\ last'.act \in {"PageLoad", "GoInventory", "Serve", "FetchRejected", "CatalogsResponse",
                    "ProductsResponse", "InputLogin", "login", "setBranch", "InputForm",
                    "ToggleIncludeInactive", "saveProduct", "SaveResponse",
                    "deactivateProduct", "DeactivateResponse", "saveLinea", "saveSegmento",
                    "CatalogSaveResponse"}
       => token' = token

C16_TokenLifecycle == [][C16_Step]_vars

\* A login wrote a token after the token of an earlier Home activation had
\* been removed.
C16_Witness ==
  /\ last.act = "LoginResponse" /\ last.out = "ok" /\ token = last.arg.access_token
  /\ \E r \in BagToSet(pending) :
       r.op = "me" /\ ~r.live /\ Truthy(r.bearer) /\ r.bearer # token

\* C17: every request a step issues is waiting afterwards; the login request
\* has no bearer credential, and every other request (who-am-I, catalogs,
\* product list, product create/update, deactivate, line create, segment
\* create) has one whose value is the content of the token slot as the
\* operation that issues it finds it (after the write of a login that
\* navigates to Home, and at the moment a handler goes on to its refetch).
C17_Step ==
  \A i \in 1..Len(last'.sent) :
     /\ BagIn(last'.sent[i], pending')
     /\ last'.sent[i].op \in {"login", "me", "catalogs", "products", "save", "deactivate",
                               "linea", "segmento"}
     /\ IF last'.sent[i].op = "login"
        THEN "bearer" \notin DOMAIN last'.sent[i]
        ELSE "bearer" \in DOMAIN last'.sent[i] /\ last'.sent[i].bearer = token'

C17_BearerIsToken == [][C17_Step]_vars

\* The refetch after a deactivate carries the stored token.
C17_Witness ==
  /\ last.act = "DeactivateResponse" /\ Len(last.sent) = 1
  /\ last.sent[1].op = "products" /\ last.sent[1].bearer = token /\ token \in Tokens

\* The step is the answer to the catalogs request r that a saveLinea or a
\* saveSegmento of the view shown was waiting for.
AnswersCatalogsOf(r, caller) ==
  /\ last'.act = "CatalogsResponse" /\ last'.arg = caller
  /\ r.op = "catalogs" /\ r.then = caller /\ r.live
  /\ pending' = Take(pending, r)

\* C18: saveLinea and saveSegmento send the sub-form as typed.  A success
\* answer to the creation issues one catalogs request and leaves both
\* sub-forms as they are; the sub-form of the creation is reset to its data()
\* value when that catalogs request is answered (with any status), and the
\* other sub-form keeps its content.  A non-success answer to the creation
\* issues no request and leaves both sub-forms as they are.  None of these
\* steps changes the product form, the mode or the list shown.
C18_Step ==
  /\ last'.act = "saveLinea" => last'.sent = <<LineaReq(token, lineaForm)>>
  /\ last'.act = "saveSegmento" => last'.sent = <<SegmentoReq(token, segmentoForm)>>
  /\ last'.act = "CatalogSaveResponse" =>
       /\ UNCHANGED <<lineaForm, segmentoForm, lineas, segmentos>>
       /\ \E r \in BagToSet(pending) :
            /\ r.op \in {"linea", "segmento"}
            /\ IF last'.out = "ok"
               THEN /\ Len(last'.sent) = 1
                    /\ last'.sent[1].op = "catalogs"
                    /\ last'.sent[1].url = "/inventory/catalogs"
                    /\ last'.sent[1].then = (IF r.op = "linea" THEN "saveLinea"
                                             ELSE "saveSegmento")
                    /\ pending' = Take(pending, r) (+) SetToBag({last'.sent[1]})
               ELSE /\ last'.sent = << >>
                    /\ pending' = Take(pending, r)
  /\ \A r \in BagToSet(pending) :
       /\ AnswersCatalogsOf(r, "saveLinea") =>
            /\ lineaForm' = [cod_linea |-> "", linea |-> "", activo |-> TRUE]
            /\ segmentoForm' = segmentoForm
       /\ AnswersCatalogsOf(r, "saveSegmento") =>
            /\ segmentoForm' = [segmento |-> ""]
            /\ lineaForm' = lineaForm
  /\ last'.act \in {"saveLinea", "saveSegmento", "CatalogSaveResponse", "CatalogsResponse"}
       => UNCHANGED <<form, isEditing, editingId, products>>

C18_CatalogSave == [][C18_Step]_vars

\* The catalogs refetch of a saveLinea was answered: the line sub-form is
\* reset, the segment sub-form still holds its text, and the product form is
\* in edit mode on a listed record.
C18_Witness ==
  /\ last.act = "CatalogsResponse" /\ last.arg = "saveLinea"
  /\ lineaForm = EmptyLineaForm /\ segmentoForm = [segmento |-> "Nino"]
  /\ isEditing /\ Len(products) > 0 /\ form.cod_producto = "B"

\* The number of login requests waiting.
LoginCount(pend) == Copies({r \in BagToSet(pend) : r.op = "login"}, pend)

\* C19: a submit of the login form issues exactly one request, to the login
\* endpoint, with the e-mail and password typed; no other step issues a login
\* request, and a non-success answer or a network error takes its request
\* away and issues none: the next login request comes with the next submit.
C19_Step ==
  /\ last'.act = "login" =>
       /\ last'.sent = <<LoginReq(email, password)>>
       /\ last'.sent[1].url = "/auth/login"
       /\ LoginCount(pending') = LoginCount(pending) + 1
  /\ last'.act # "login" =>
       /\ LoginCount(pending') <= LoginCount(pending)
       /\ \A i \in 1..Len(last'.sent) : last'.sent[i].op # "login"
  /\ (last'.act = "LoginResponse" /\ last'.out \in {"fail", "neterr"}) =>
       /\ last'.sent = << >>
       /\ LoginCount(pending') = LoginCount(pending) - 1

C19_SingleAttempt == [][C19_Step]_vars

\* A login failed with a network error and nothing is waiting: the form shows
\* the error and no request is on its way.
C19_Witness ==
  /\ last.act = "LoginResponse" /\ last.out = "neterr" /\ last.arg.live
  /\ view = "login" /\ pending = EmptyBag /\ email = "ana@hp"

\* C20 (the statement of the claim): an answer to the who-am-I request of a
\* Home activation that is no longer shown, arriving while the token slot
\* holds another token than the one that request carried (the user logged out
\* and a later login stored a new one), neither changes the token slot nor
\* the view.  (The handler of the earlier activation still runs logout().)
C20_Step ==
  (/\ last'.act = "MeResponse" /\ ~last'.arg.live
   /\ token \in Tokens /\ last'.arg.bearer \in Tokens /\ last'.arg.bearer # token)
    => (token' = token /\ view' = view)

C20_StaleGuardBenign == [][C20_Step]_vars

\* C21: the save button is never off: in the Inventory view saveProduct can
\* be triggered whatever is waiting (here: while the model's bound on waiting
\* requests leaves room), also while an identical create request is waiting,
\* and it adds one more request built from the form as it is.  Every success
\* answer to a save issues its own list refetch, and every answer to such a
\* refetch that the view receives resets the form to create mode.
C21_Open ==
  (view = "inventory" /\ InFlight(pending) < MaxInFlight) => ENABLED saveProduct

C21_Step ==
  /\ last'.act = "saveProduct" =>
       /\ last'.sent = <<SaveReq(token, isEditing, editingId, form)>>
       /\ pending' = pending (+) SetToBag({last'.sent[1]})
  /\ (last'.act = "SaveResponse" /\ last'.out = "ok") =>
       /\ Refetches("saveProduct", "ok")
       /\ \E r \in BagToSet(pending) :
            /\ r.op = "save" /\ r.resp = "ok"
            /\ pending' = Take(pending, r) (+) SetToBag({last'.sent[1]})
  /\ \A r \in BagToSet(pending) :
       (AnswersList(r) /\ r.live /\ r.then = "saveProduct") =>
          (~isEditing' /\ editingId' = Null /\ form' = InventoryData.form)

C22_Step ==
  /\ last'.act = "deactivateProduct" =>
       /\ Len(last'.sent) = 1
       /\ last'.sent[1].method = "PATCH"
       /\ last'.sent[1].url = "/inventory/products/" \o last'.arg \o "/deactivate"
       /\ pending' = pending (+) SetToBag({last'.sent[1]})
  /\ last'.act = "DeactivateResponse" =>
       IF last'.out = "ok"
       THEN Refetches("deactivateProduct", "ok")
       ELSE last'.sent = << >>

C22_RefetchOnSuccessOnly == [][C22_Step]_vars

\* The name of the first entry of a profile's role list, "usuario" when the
\* profile has no list or an empty one.
FirstRole(data) ==
  IF "roles" \notin DOMAIN data THEN "usuario"
  ELSE IF data.roles = << >> THEN "usuario"
  ELSE data.roles[1].name

\* C23: when the Home view that is shown receives a success answer to its
\* who-am-I request, the first entry of the profile's role list alone decides
\* (with "usuario" standing in for a missing or empty list): if it is
\* "administrador" the user stays on Home with that role, the label
\* "Administrador" and the token kept; otherwise, also when "administrador"
\* comes later in the list, the token is removed and the login view is shown.
C23_Step ==
  (/\ last'.act = "MeResponse" /\ last'.out \notin {"fail", "neterr"}
   /\ last'.arg.live) =>
     /\ last'.out = FirstRole(last'.arg.data)
     /\ IF FirstRole(last'.arg.data) = "administrador"
        THEN /\ view' = "home" /\ token' = token
             /\ role' = "administrador" /\ roleLabel' = "Administrador"
        ELSE /\ view' = "login" /\ token' = Null
             /\ role' = Null /\ roleLabel' = "Usuario"

C23_FirstRoleDecides == [][C23_Step]_vars

\* A profile with "administrador" in second position was logged out.
C23_Witness ==
  /\ last.act = "MeResponse" /\ last.out = "vendedor" /\ last.arg.live
  /\ \E i \in 2..Len(last.arg.data.roles) : last.arg.data.roles[i].name = "administrador"
  /\ view = "login" /\ token = Null

\* The url of a product-list request for an include-inactive value.
ListUrl(inactive) ==
  IF inactive THEN "/inventory/products?include_inactive=true"
  ELSE "/inventory/products?include_inactive=false"

\* C24: every product-list request that a step of the Inventory view issues
\* (the one of the activation, after the catalogs answer; the one of the
\* checkbox; the refetch after a save or a deactivate answer) is a GET whose
\* include_inactive flag is the checkbox value at that step, after the change
\* when the step is the change.  The checkbox value changes only by a toggle,
\* and each toggle issues exactly one request, a product-list request.
C24_Step ==
  /\ \A i \in 1..Len(last'.sent) :
       last'.sent[i].op = "products" =>
         /\ last'.sent[i].method = "GET"
         /\ last'.sent[i].url = ListUrl(includeInactive')
  /\ last'.act = "ToggleIncludeInactive" =>
       /\ includeInactive' = ~includeInactive
       /\ Len(last'.sent) = 1 /\ last'.sent[1].op = "products"
       /\ pending' = pending (+) SetToBag({last'.sent[1]})
  /\ includeInactive' # includeInactive => last'.act = "ToggleIncludeInactive"
  /\ (\/ last'.act = "CatalogsResponse" /\ last'.arg = "mounted"
      \/ last'.act = "SaveResponse" /\ last'.out = "ok"
      \/ last'.act = "DeactivateResponse") =>
       (Len(last'.sent) = 1 /\ last'.sent[1].op = "products")

C24_FlagFollowsToggle == [][C24_Step]_vars

\* The checkbox was ticked while the catalogs request of the activation was
\* waiting: the list request of the activation asks for inactive records too.
C24_Witness ==
  /\ last.act = "CatalogsResponse" /\ last.arg = "mounted" /\ includeInactive
  /\ Len(last.sent) = 1 /\ last.sent[1].url = "/inventory/products?include_inactive=true"

\* C25: the step that activates the Inventory view issues the catalogs
\* request and nothing else; the product-list request of an activation is
\* issued only by the step that receives the answer to that catalogs request,
\* with a success or a non-success status alike, and a non-success answer
\* leaves the catalogs as they are.  When the catalogs request of an
\* activation fails with a network error, that step issues nothing, so no
\* product-list request of that activation ever exists.
C25_Step ==
  /\ (view' = "inventory" /\ view # "inventory") =>
       /\ Len(last'.sent) = 1
       /\ last'.sent[1].op = "catalogs" /\ last'.sent[1].then = "mounted"
       /\ \A r \in BagToSet(pending') : r.live => r.op = "catalogs"
  /\ \A i \in 1..Len(last'.sent) :
       (last'.sent[i].op = "products" /\ last'.sent[i].then = "mounted") =>
          (last'.act = "CatalogsResponse" /\ last'.arg = "mounted")
  /\ (last'.act = "CatalogsResponse" /\ last'.arg = "mounted") =>
       /\ Len(last'.sent) = 1
       /\ last'.sent[1].op = "products" /\ last'.sent[1].then = "mounted"
       /\ BagIn(last'.sent[1], pending')
       /\ last'.out = "fail" => UNCHANGED <<lineas, segmentos>>
  /\ \A r \in BagToSet(pending) :
       (last'.act = "FetchRejected" /\ r.op = "catalogs" /\ pending' = Take(pending, r)) =>
          /\ last'.sent = << >>
          /\ UNCHANGED <<lineas, segmentos, products>>

C25_CatalogsThenProducts == [][C25_Step]_vars

\* The catalogs request of the activation was answered with a non-success
\* status: no catalogs, and the list request is waiting.
C25_Witness ==
  /\ last.act = "CatalogsResponse" /\ last.arg = "mounted" /\ last.out = "fail"
  /\ view = "inventory" /\ lineas = << >> /\ segmentos = << >>
  /\ \E r \in BagToSet(pending) : r.op = "products" /\ r.then = "mounted" /\ r.live

\* C26: the remember-session field decides nothing.  The request of a submit
\* is made of the e-mail and the password typed and of nothing else; what the
\* answer leaves in the token slot, the error text and the view is given by
\* the answer's status and access token alone; ticking or unticking the field
\* changes no other part of the state and issues nothing.  (Each right-hand
\* side is written without the field, so two runs that differ in it only
\* agree on the request, the token slot, the error text and the view.)
C26_Step ==
  /\ last'.act = "login" =>
       last'.sent = <<[op |-> "login", live |-> TRUE, method |-> "POST",
                       url |-> "/auth/login",
                       body |-> [email |-> email, password |-> password]]>>
  /\ (last'.act = "LoginResponse" /\ last'.arg.live) =>
       /\ token' = IF last'.out = "ok" THEN last'.arg.access_token ELSE token
       /\ view' = IF last'.out = "ok" THEN "home" ELSE "login"
       /\ error' = CASE last'.out = "ok" -> Null
                      [] last'.out = "fail" -> "Credenciales incorrectas"
                      [] last'.out = "neterr" -> "Error de conexion"
  /\ remember' # remember =>
       \/ /\ last'.act = "InputLogin"
          /\ UNCHANGED <<token, view, pending, error, srvProducts, homeVars, invVars>>
       \/ view' # view /\ remember'

C26_RememberUnused == [][C26_Step]_vars

\* A login submitted with the field unticked was rejected.
C26_Witness ==
  /\ last.act = "LoginResponse" /\ last.out = "fail" /\ last.arg.live
  /\ ~remember /\ email = "ana@hp" /\ password = "pw"
  /\ error = "Credenciales incorrectas" /\ view = "login"

\* o carries a property k that is neither null nor the empty text
HasText(o, k) == k \in DOMAIN o /\ o[k] # Null /\ o[k] # ""

\* C27: editProduct(p), for a row p of the table, leaves the view in edit mode
\* with editingId = p.id and a form filled from p: code, description and
\* active flag copied; line and segment the identifier of p's line / segment,
\* empty when p has none; brand and reference code empty when missing; the
\* three prices and the cost 0 when missing; the stock the existencia of p's
\* saldo, 0 when p has no saldo or the saldo has no existencia.  Nothing is
\* sent and nothing else changes.
C27_Step ==
  last'.act = "editProduct" =>
    \E p \in Range(filteredProducts) :
      /\ p.id = last'.arg
      /\ isEditing' /\ editingId' = p.id
      /\ DOMAIN form' = DOMAIN EmptyForm
      /\ form'.cod_producto = p.cod_producto
      /\ form'.descripcion = p.descripcion
      /\ form'.activo = p.activo
      /\ form'.linea_id =
           IF "linea" \in DOMAIN p /\ HasText(p.linea, "id") THEN p.linea.id ELSE ""
      /\ form'.segmento_id =
           IF "segmento" \in DOMAIN p /\ HasText(p.segmento, "id") THEN p.segmento.id ELSE ""
      /\ form'.marca = IF HasText(p, "marca") THEN p.marca ELSE ""
      /\ form'.referencia_producto =
           IF HasText(p, "referencia_producto") THEN p.referencia_producto ELSE ""
      /\ \A k \in {"precio_venta1", "precio_venta2", "precio_venta3", "costo_producto"} :
           form'[k] = IF k \in DOMAIN p THEN p[k] ELSE 0
      /\ form'.existencia =
           IF "saldo" \in DOMAIN p /\ "existencia" \in DOMAIN p.saldo
           THEN p.saldo.existencia ELSE 0
      /\ last'.sent = << >>
      /\ UNCHANGED <<token, view, pending, products, lineas, segmentos, search,
                     includeInactive, lineaForm, segmentoForm>>

C27_EditFillsForm == [][C27_Step]_vars

\* The row edited has a line without identifier, a segment whose identifier
\* is null, a null brand, an empty reference code, two prices missing and a
\* saldo without existencia.
C27_Witness ==
  /\ last.act = "editProduct" /\ last.arg = "3"
  /\ isEditing /\ editingId = "3"
  /\ form = [cod_producto |-> "a", descripcion |-> "D1", linea_id |-> "",
             segmento_id |-> "", marca |-> "", referencia_producto |-> "",
             precio_venta1 |-> 0, precio_venta2 |-> 0, precio_venta3 |-> 0,
             costo_producto |-> 2, existencia |-> 0, activo |-> TRUE]

\* C28: the answer to a save changes neither the form nor the mode nor the
\* list, and a success answer issues the refetch; until that refetch is
\* answered the form and the mode change by the user's hand only (typing,
\* selecting a row, cancelling).  The answer to the refetch, success or not,
\* puts the view shown back in create mode with the default form; a
\* non-success answer keeps the list that was shown.  A refetch that fails
\* with a network error leaves form, mode and list as they are.
C28_Step ==
  /\ last'.act = "SaveResponse" =>
       /\ UNCHANGED <<form, isEditing, editingId, products>>
       /\ last'.out = "ok" => Refetches("saveProduct", "ok")
       /\ last'.out # "ok" => last'.sent = << >>
  /\ \A r \in BagToSet(pending) :
       (AnswersList(r) /\ r.then = "saveProduct" /\ r.live) =>
          /\ form' = InventoryData.form /\ ~isEditing' /\ editingId' = Null
          /\ products' = IF r.resp = "ok" THEN r.data ELSE products
  /\ \A r \in BagToSet(pending) :
       (last'.act = "FetchRejected" /\ r.op = "products" /\ pending' = Take(pending, r)) =>
          UNCHANGED <<form, isEditing, editingId, products>>
  /\ (view' = view /\ <<form, isEditing, editingId>>' # <<form, isEditing, editingId>>) =>
       \/ last'.act \in {"InputForm", "editProduct", "resetForm"}
       \/ last'.act = "ProductsResponse" /\ last'.arg = "saveProduct:ok"

C28_ResetAfterRefetch == [][C28_Step]_vars

\* A product was created, the refetch after it got a non-success answer: the
\* form is back at its defaults while the list shown is still the empty one.
C28_Witness ==
  /\ last.act = "ProductsResponse" /\ last.arg = "saveProduct:ok" /\ last.out = "fail"
  /\ view = "inventory"
  /\ form = InventoryData.form /\ ~isEditing /\ editingId = Null
  /\ products = << >> /\ Len(srvProducts) = 1

\* The step ran logout(): the "Salir" button, or the catch block and the role
\* check of Home.mounted.
RanLogout ==
  \/ last'.act = "logout"
  \/ last'.act = "MeResponse" /\ last'.out # "administrador"

\* C29: a step that runs logout(), in whatever state, ends with the token slot
\* empty and the login view shown, and issues nothing.  Run again where the
\* slot is already empty and the login view shown, it changes nothing of the
\* slot, the view and what the views hold.  A Home activation while the slot
\* is empty (as a logout leaves it, until a login answer fills it) issues no
\* request and ends on the login view.
C29_Step ==
  /\ RanLogout =>
       /\ token' = Null /\ view' = "login"
       /\ last'.sent = << >>
       /\ \A r \in BagToSet(pending') : r.op = "me" => ~r.live
  /\ (RanLogout /\ token = Null /\ view = "login") =>
       UNCHANGED <<token, view, loginVars, homeVars, invVars, srvProducts>>
  /\ (last'.act \in {"PageLoad", "Visit"} /\ RouteView(last'.arg) = "home"
        /\ token = Null) =>
       /\ last'.sent = << >>
       /\ view' = "login" /\ token' = Null
       /\ InFlight(pending') = InFlight(pending)

C29_LogoutIdempotent == [][C29_Step]_vars

\* Home was left by a logout() while its who-am-I request was waiting, and the
\* user went back to /home: the login view is shown and nothing was sent.
C29_Witness ==
  /\ last.act = "Visit" /\ last.arg = "/home" /\ last.sent = << >>
  /\ token = Null /\ view = "login"
  /\ \E r \in BagToSet(pending) : r.op = "me" /\ ~r.live

\* Home is shown and the who-am-I request of its activation is waiting.
HomeWaiting == view = "home" /\ \E r \in BagToSet(pending) : r.op = "me" /\ r.live

StaysAdmin == view = "home" /\ role = "administrador" /\ Truthy(token)
LoggedOut == view = "login" /\ token = Null

\* C30 (the statement of the claim, in the state the answer leaves): once a
\* who-am-I request has been answered or has failed, either Home is shown with
\* role "administrador" and a token stored, or the login view is shown and the
\* token slot is empty.
C30_AnswerSettles == last.act = "MeResponse" => (StaysAdmin \/ LoggedOut)

\* C30 (amended): a Home activation with a stored token issues exactly one
\* who-am-I request, and no other step issues one.  The answer that finds its
\* Home still shown leaves Home with role "administrador" and the token as it
\* was, or the login view and an empty slot.  The answer that finds its Home
\* left changes nothing when it names an "administrador", and otherwise
\* empties the slot and shows the login view.  With every request answered in
\* the end, a Home that waits for its answer gets to one of the two outcomes,
\* unless the user leaves it for the Inventory first.
C30_Step ==
  /\ (view' = "home" /\ view # "home") =>
       /\ Truthy(token')
       /\ last'.sent = <<MeReq(token')>>
       /\ \A r \in BagToSet(pending') :
            (r.op = "me" /\ r.live) => r = MeReq(token') /\ CopiesIn(r, pending') = 1
  /\ \A i \in 1..Len(last'.sent) :
       last'.sent[i].op = "me" => view' = "home" /\ view # "home"
  /\ (last'.act = "MeResponse" /\ last'.arg.live) =>
       /\ view = "home"
       /\ \/ /\ last'.out = "administrador"
             /\ view' = "home" /\ role' = "administrador"
             /\ token' = token /\ Truthy(token')
          \/ /\ last'.out # "administrador"
             /\ view' = "login" /\ token' = Null
  /\ (last'.act = "MeResponse" /\ ~last'.arg.live) =>
       IF last'.out = "administrador"
       THEN UNCHANGED <<token, view, loginVars, homeVars, invVars, srvProducts>>
       ELSE view' = "login" /\ token' = Null

C30_HomeGuard ==
  /\ [][C30_Step]_vars
  /\ HomeWaiting ~> (StaysAdmin /\ ~HomeWaiting) \/ LoggedOut \/ view = "inventory"

\* The answer found its Home shown and named an "administrador".
C30_Witness ==
  /\ last.act = "MeResponse" /\ last.arg.live /\ last.out = "administrador"
  /\ StaysAdmin /\ ~HomeWaiting

\* A save, or the refetch a saved product is followed by, is waiting.
SaveWaiting ==
  \E r \in BagToSet(pending) :
     r.live /\ (r.op = "save" \/ (r.op = "products" /\ r.then = "saveProduct"))

\* The step ends the handler of a save that got a success answer: its refetch
\* r is answered, or fails with a network error.
EndsSave(r) ==
  /\ r.op = "products" /\ r.then = "saveProduct" /\ r.live
  /\ pending' = Take(pending, r)
  /\ \/ AnswersList(r)
     \/ last'.act = "FetchRejected"

\* C31 (the statement of the claim): the handler of a save that got a success
\* answer never ends without the form in create mode at its default values.
C31_AlwaysReset ==
  [][\A r \in BagToSet(pending) :
       EndsSave(r) => (~isEditing' /\ editingId' = Null /\ form' = InventoryData.form)]_vars

\* While a save or its refetch waits, every row shown can still be selected
\* for editing.
C31_Open ==
  (view = "inventory" /\ SaveWaiting) =>
     \A producto \in Range(filteredProducts) : ENABLED editProduct(producto)

\* C31 (amended): the answer to a save changes neither form nor mode; the
\* answer to the refetch that follows a success puts the form in create mode
\* at its default values whatever mode and values it finds, so a row selected
\* or a value typed while the save or the refetch waited is lost; a refetch
\* that fails with a network error leaves mode, editingId and form as found.
C31_Step ==
  /\ last'.act = "SaveResponse" => UNCHANGED <<form, isEditing, editingId>>
  /\ \A r \in BagToSet(pending) :
       EndsSave(r) =>
          IF last'.act = "FetchRejected"
          THEN UNCHANGED <<form, isEditing, editingId>>
          ELSE ~isEditing' /\ editingId' = Null /\ form' = InventoryData.form
  /\ (SaveWaiting /\ last'.act = "editProduct") =>
       (isEditing' /\ editingId' = last'.arg /\ SaveWaiting')
  /\ (SaveWaiting /\ last'.act = "InputForm") =>
       (form'[last'.arg] # form[last'.arg] /\ SaveWaiting')

C31_ResetDiscardsEdits == []C31_Open /\ [][C31_Step]_vars

\* A row had been selected, and the answer to the refetch after a save left
\* the form at its defaults in create mode.
C31_Witness ==
  /\ last.act = "ProductsResponse" /\ last.arg = "saveProduct:ok"
  /\ view = "inventory" /\ edited # Null
  /\ ~isEditing /\ editingId = Null /\ form = InventoryData.form

\* The step belongs to a deactivateProduct: the click, the answer to the
\* PATCH, the answer to the refetch, or the network failure of either.
OfDeactivate ==
  \/ last'.act \in {"deactivateProduct", "DeactivateResponse"}
  \/ last'.act = "ProductsResponse"
       /\ last'.arg \in {"deactivateProduct:ok", "deactivateProduct:fail"}
  \/ /\ last'.act = "FetchRejected"
     /\ \E r \in BagToSet(pending) :
          /\ pending' = Take(pending, r)
          /\ r.op = "deactivate" \/ (r.op = "products" /\ r.then = "deactivateProduct")

\* C32: no step of a deactivateProduct, whatever the answers, changes the
\* mode, editingId or a field of the form, the row deactivated being the one
\* edited or not; and a save submitted in edit mode is a PUT to the record
\* editingId names, with the form as its payload, whether or not that record
\* is still active or still listed.
C32_Step ==
  /\ OfDeactivate => UNCHANGED <<isEditing, editingId, form>>
  /\ (last'.act = "saveProduct" /\ isEditing) =>
       /\ Len(last'.sent) = 1
       /\ last'.sent[1].method = "PUT"
       /\ last'.sent[1].url = "/inventory/products/" \o editingId
       /\ \A k \in DOMAIN last'.sent[1].body :
            last'.sent[1].body[k] = form[k] \/ (form[k] = "" /\ last'.sent[1].body[k] = Null)
       /\ UNCHANGED <<isEditing, editingId, form>>

C32_DeactivateKeepsEdit == [][C32_Step]_vars

\* The row being edited was deactivated and is gone from the list shown; the
\* view is still in edit mode on it and the save just submitted targets it.
C32_Witness ==
  /\ last.act = "saveProduct" /\ isEditing /\ editingId = "1" /\ edited = "1"
  /\ Len(srvProducts) = 1 /\ srvProducts[1].id = "1" /\ ~srvProducts[1].activo
  /\ products = << >>
  /\ last.sent[1].method = "PUT" /\ last.sent[1].url = "/inventory/products/1"

\* C33: in every state of the Inventory view, isEditing is true exactly when
\* editingId is not null, and in edit mode editingId is the identifier of the
\* row passed to the latest editProduct.
C33_ModeMatchesId ==
  view = "inventory" =>
     /\ isEditing \in BOOLEAN
     /\ isEditing <=> editingId # Null
     /\ isEditing => editingId = edited

\* Edit mode on row 1 has outlived the step that entered it: the list was
\* refetched since.
C33_Witness ==
  /\ view = "inventory" /\ isEditing /\ editingId = "1" /\ edited = "1"
  /\ last.act = "ProductsResponse"

\* The profile of the Home shown has been loaded.
ProfileLoaded == view = "home" /\ role # Null

\* The step is the success answer that loads the profile of the Home shown.
LoadsProfile ==
  last'.act = "MeResponse" /\ last'.arg.live /\ last'.out = "administrador"

\* C34: once the profile is loaded the branch list is not empty and the
\* active branch is one of its members.  The load sets the list to the code
\* and name of each branch the backend returned, in order, or to the single
\* branch "central" when the profile has none, and the active branch to the
\* first of the list; a branch selection makes a member of the list the
\* active branch and leaves the list as it is.
C34_Step ==
  /\ LoadsProfile =>
       LET data == last'.arg.data
       IN /\ branches' =
               IF "branches" \in DOMAIN data /\ data.branches # << >>
               THEN [i \in 1..Len(data.branches) |->
                       [code |-> data.branches[i].code, name |-> data.branches[i].name]]
               ELSE <<[code |-> "central", name |-> "Central"]>>
          /\ activeBranch' = branches'[1]
  /\ last'.act = "setBranch" =>
       /\ ProfileLoaded
       /\ \E i \in 1..Len(branches) : activeBranch' = branches[i]
       /\ branches' = branches

C34_BranchInList ==
  /\ [](ProfileLoaded =>
         (Len(branches) > 0 /\ \E i \in 1..Len(branches) : activeBranch = branches[i]))
  /\ [][C34_Step]_vars

\* The second branch of a two-branch profile was selected.
C34_Witness ==
  /\ ProfileLoaded /\ last.act = "setBranch"
  /\ Len(branches) = 2 /\ activeBranch = branches[2]
  /\ activeBranch = [code |-> "esteli", name |-> "Esteli"]

\* C35: no save request, create or update, carries the empty string as its
\* line or segment reference.  The payload of a save holds null for a
\* reference the form holds empty and the form's identifier for one that is
\* chosen, and equals the form in every other field it has; building it
\* leaves the form as it is.
C35_Step ==
  last'.act = "saveProduct" =>
    LET b == last'.sent[1].body
    IN /\ b.linea_id = IF form.linea_id = "" THEN Null ELSE form.linea_id
       /\ b.segmento_id = IF form.segmento_id = "" THEN Null ELSE form.segmento_id
       /\ \A k \in DOMAIN b \ {"linea_id", "segmento_id"} : b[k] = form[k]
       /\ DOMAIN b = IF isEditing THEN DOMAIN form \ {"cod_producto"} ELSE DOMAIN form
       /\ form' = form

C35_NoEmptyReference ==
  /\ [](\A r \in BagToSet(pending) :
          r.op = "save" => (r.body.linea_id # "" /\ r.body.segmento_id # ""))
  /\ [][C35_Step]_vars

\* A save was submitted with a line chosen and no segment: the request holds
\* the line's identifier and a null segment, the form still the empty text.
C35_Witness ==
  /\ last.act = "saveProduct"
  /\ form.linea_id = "L1" /\ form.segmento_id = ""
  /\ last.sent[1].body.linea_id = "L1" /\ last.sent[1].body.segmento_id = Null
  /\ \E l \in Range(lineas) : l.id = form.linea_id

====
